---------------------------- MODULE Spec2Model ----------------------------
(***************************************************************************)
(* A model of the API-testing MCP servers of this repository: the URL      *)
(* whitelist, the credential store and its admission control, the          *)
(* in-memory token cache and the call layer (callApi / callRawApi) with    *)
(* its one-shot re-authentication retry.                                   *)
(*                                                                         *)
(* Three specifications share the variables:                               *)
(*   SpecUrl   the whitelist predicate applied to bounded URL inputs       *)
(*   Spec      concurrent callApi / callRawApi invocations over a store    *)
(*             loaded at start-up, the token cache and a nondeterministic  *)
(*             network                                                     *)
(*   SpecCred  concurrent addCredential / updateCredential /               *)
(*             removeCredential invocations (api-scout admission control)  *)
(*                                                                         *)
(* An async handler is cut at its network requests: one action runs the    *)
(* code from one fetch() completion (or the handler's start) to the next   *)
(* fetch() call.  Awaits on the in-memory storage do not suspend on I/O    *)
(* and are part of the step that contains them.                            *)
(***************************************************************************)
EXTENDS Integers, Sequences, FiniteSets, TLC

VARIABLES
    wlUrl,        \* SpecUrl: the target URL handed to the whitelist predicate
    wlList,       \* SpecUrl: the whitelisted base URLs handed to it
    wlResult,     \* SpecUrl: <<>> before the call, <<result>> after it
    jsonValue,    \* SpecPath: the parsed response body handed to getValueByPath
    jsonPath,     \* SpecPath: the path handed to it, split on "."
    lookup,       \* SpecPath: <<>> before the call, <<results>> after it
    apiDocs,      \* Storage.data.apiDocs
    credentials,  \* Storage.data.credentials
    tokenCache,   \* the module-level Map credentialId -> TokenCache
    calls,        \* the callApi / callRawApi invocations in flight
    started,      \* how many invocations have been started
    adm,          \* the add/update/removeCredential invocations in flight
    admStarted,   \* how many of them have been started
    clock,        \* Date.now(), advanced by every store write
    schemas,      \* SpecResolve: apiDoc.schemas and the schema objects of the document
    stack,        \* SpecResolve: the resolveSchema calls in progress, innermost last
    returned      \* SpecResolve: <<>>, or what the latest call to return returned

vars == <<wlUrl, wlList, wlResult, jsonValue, jsonPath, lookup, apiDocs, credentials, tokenCache,
          calls, started, adm, admStarted, clock, schemas, stack, returned>>

urlVars == <<wlUrl, wlList, wlResult>>
schemaVars == <<schemas, stack, returned>>
pathVars == <<jsonValue, jsonPath, lookup, schemaVars>>
callVars == <<tokenCache, calls, started>>
credVars == <<adm, admStarted, clock>>

-----------------------------------------------------------------------------
(* Bounds *)

\* longest URL path, in characters
MaxPathLen == 3
\* callApi / callRawApi invocations started in one behaviour
MaxCalls == 2
\* credential admission operations started in one behaviour
MaxAdmOps == 3

-----------------------------------------------------------------------------
(* URLs.  A URL string is a record: its scheme, its host and its raw path  *)
(* (a sequence of characters, empty when the string ends after the host).  *)
(* A string the WHATWG parser rejects has scheme "bad".                    *)

PathChars == {"/", "a", "b"}

RECURSIVE SeqsUpTo(_, _)
SeqsUpTo(S, n) ==
    IF n = 0 THEN {<<>>}
    ELSE LET shorter == SeqsUpTo(S, n - 1)
         IN  shorter \cup {Append(s, c) : s \in shorter, c \in S}

\* a raw path is empty or starts with "/"
Paths == {p \in SeqsUpTo(PathChars, MaxPathLen) : p = <<>> \/ p[1] = "/"}

Origins == {[scheme |-> "https", host |-> "api"],
            [scheme |-> "https", host |-> "evil"],
            [scheme |-> "http", host |-> "api"]}

MalformedUrl == [scheme |-> "bad", host |-> "", path |-> <<>>]

Url(scheme, host, path) == [scheme |-> scheme, host |-> host, path |-> path]

Urls == {Url(o.scheme, o.host, p) : o \in Origins, p \in Paths} \cup {MalformedUrl}

StartsWith(s, prefix) ==
    /\ Len(prefix) <= Len(s)
    /\ SubSeq(s, 1, Len(prefix)) = prefix

\* s.replace(/\/+$/, '')
RECURSIVE StripTrailingSlashes(_)
StripTrailingSlashes(s) ==
    IF s # <<>> /\ s[Len(s)] = "/"
    THEN StripTrailingSlashes(SubSeq(s, 1, Len(s) - 1))
    ELSE s

\* new URL(u): throws on a malformed string; an empty path parses to "/"
UrlParses(u) == u.scheme # "bad"

ParseUrl(u) ==
    [protocol |-> u.scheme,
     host     |-> u.host,
     pathname |-> IF u.path = <<>> THEN <<"/">> ELSE u.path]

\* `${parsed.protocol}//${parsed.host}`
OriginOf(parsed) == <<parsed.protocol, parsed.host>>

NoMatch == [valid |-> FALSE, matchedBaseUrl |-> <<>>]

\* the for-loop of validateUrlAgainstWhitelist over whitelistedBaseUrls[i..]
RECURSIVE ValidateFrom(_, _, _)
ValidateFrom(parsedUrl, bases, i) ==
    IF i > Len(bases) THEN NoMatch
    ELSE IF ~UrlParses(bases[i]) THEN ValidateFrom(parsedUrl, bases, i + 1)
    ELSE LET parsedBase == ParseUrl(bases[i])
         IN  IF /\ OriginOf(parsedUrl) = OriginOf(parsedBase)
                /\ StartsWith(parsedUrl.pathname, parsedBase.pathname)
             THEN [valid |-> TRUE, matchedBaseUrl |-> <<bases[i]>>]
             ELSE ValidateFrom(parsedUrl, bases, i + 1)

\* mutation of validateUrlAgainstWhitelist: a malformed entry ends the loop
validateUntilMalformed(url, whitelistedBaseUrls) ==
    IF ~UrlParses(url) THEN NoMatch
    ELSE IF \E i \in 1..Len(whitelistedBaseUrls) :
                ~UrlParses(whitelistedBaseUrls[i])
    THEN ValidateFrom(ParseUrl(url),
                      SubSeq(whitelistedBaseUrls, 1,
                             (CHOOSE i \in 1..Len(whitelistedBaseUrls) :
                                  /\ ~UrlParses(whitelistedBaseUrls[i])
                                  /\ \A j \in 1..(i - 1) :
                                         UrlParses(whitelistedBaseUrls[j])) - 1),
                      1)
    ELSE ValidateFrom(ParseUrl(url), whitelistedBaseUrls, 1)

validateUrlAgainstWhitelist(url, whitelistedBaseUrls) ==
    IF ~UrlParses(url) THEN NoMatch
    ELSE ValidateFrom(ParseUrl(url), whitelistedBaseUrls, 1)

\* Storage.normalizeUrl: protocol, host and pathname with the trailing
\* slashes stripped; a string that does not parse is only stripped
normalizeUrl(u) ==
    IF UrlParses(u)
    THEN Url(u.scheme, u.host, StripTrailingSlashes(ParseUrl(u).pathname))
    ELSE Url(u.scheme, u.host, StripTrailingSlashes(u.path))

-----------------------------------------------------------------------------
(* Stored data.  An optional field that is not set holds Absent; the       *)
(* optional array invalidStatusCodes is <<>> when not set and <<codes>>    *)
(* when set.                                                               *)

Absent == "undefined"

Statuses == {200, 401, 403}

-----------------------------------------------------------------------------
(* Parsed JSON and the dot-path lookup of the login response.              *)

\* A JavaScript value: undefined, null, a string, a number, a function, an
\* array of values, or a plain object (own keys to values).
Undefined == [t |-> "undefined"]
Null == [t |-> "null"]
Str(s) == [t |-> "string", v |-> s]
Num(n) == [t |-> "number", v |-> n]
Fn == [t |-> "function"]
Arr(items) == [t |-> "array", items |-> items]
Obj(own) == [t |-> "object", own |-> own]

\* keys every object inherits from Object.prototype
PrototypeKeys == {"constructor"}

\* array index keys: "0" is the first element
IndexKey(part) == IF part = "0" THEN 1 ELSE IF part = "1" THEN 2 ELSE 0

\* current[part] of JavaScript, for a current that is an object or an array
GetProperty(current, part) ==
    IF current.t = "array"
    THEN IF IndexKey(part) \in 1..Len(current.items)
         THEN current.items[IndexKey(part)]
         ELSE IF part \in PrototypeKeys THEN Fn ELSE Undefined
    ELSE IF part \in DOMAIN current.own THEN current.own[part]
    ELSE IF part \in PrototypeKeys THEN Fn ELSE Undefined

\* getValueByPath of utils/api-client.ts: the loop over path.split('.')
RECURSIVE getValueByPathFrom(_, _)
getValueByPathFrom(current, parts) ==
    IF parts = <<>> THEN current
    ELSE IF current.t \in {"null", "undefined"} THEN Undefined
    ELSE IF current.t # "object" THEN Undefined
    ELSE IF Head(parts) \notin DOMAIN current.own THEN Undefined
    ELSE getValueByPathFrom(current.own[Head(parts)], Tail(parts))

\* getValueByPath of utils/api-client.ts; the empty path is <<"">>
getValueByPath(obj, parts) ==
    IF parts = <<"">> THEN Undefined ELSE getValueByPathFrom(obj, parts)

\* getValueByPath of tools/api-call.ts
RECURSIVE getValueByPathRaw(_, _)
getValueByPathRaw(current, parts) ==
    IF parts = <<>> THEN current
    ELSE IF current.t \in {"null", "undefined"} THEN Undefined
    ELSE IF current.t \in {"object", "array"}
    THEN getValueByPathRaw(GetProperty(current, Head(parts)), Tail(parts))
    ELSE Undefined

\* `!token || typeof token !== 'string'` negated: the value is a token
IsToken(value) == value.t = "string" /\ value.v # ""

EmptyConfig ==
    [apiKey |-> Absent, apiKeyHeader |-> Absent, token |-> Absent,
     loginUrl |-> Absent, loginMethod |-> Absent, loginBody |-> Absent,
     tokenPath |-> Absent, invalidStatusCodes |-> <<>>,
     validityCheckUrl |-> Absent, refreshUrl |-> Absent,
     username |-> Absent, password |-> Absent, accessToken |-> Absent,
     headers |-> <<>>, customHeaders |-> <<>>]

Credential(id, name, type, config, createdAt, updatedAt) ==
    [id |-> id, name |-> name, type |-> type, config |-> config,
     createdAt |-> createdAt, updatedAt |-> updatedAt]

\* this.data.credentials.findIndex((cred) => cred.id === id); 0 for -1
RECURSIVE FindIndexFrom(_, _, _)
FindIndexFrom(list, id, i) ==
    IF i > Len(list) THEN 0
    ELSE IF list[i].id = id THEN i
    ELSE FindIndexFrom(list, id, i + 1)

FindIndex(list, id) == FindIndexFrom(list, id, 1)

\* Storage.getCredential / Storage.getApiDoc: <<>> for undefined
getCredential(id) ==
    LET i == FindIndex(credentials, id)
    IN  IF i = 0 THEN <<>> ELSE <<credentials[i]>>

getApiDoc(id) ==
    LET i == FindIndex(apiDocs, id)
    IN  IF i = 0 THEN <<>> ELSE <<apiDocs[i]>>

\* Storage.getWhitelistedBaseUrls
getWhitelistedBaseUrls == [i \in 1..Len(apiDocs) |-> apiDocs[i].baseUrl]

-----------------------------------------------------------------------------
(* The store the call layer runs against, as init() loads it from disk.    *)

ApiBase == Url("https", "api", <<"/", "a", "/">>)

\* endpoint path templates: "/{id}" and the relative "b"
EndpointPaths == {<<"/", "{id}">>, <<"b">>}

LoadedDocs == {<<[id |-> "d1", baseUrl |-> ApiBase, endpoints |-> EndpointPaths]>>}

AutoTokenConfigs ==
    {[EmptyConfig EXCEPT !.loginUrl = "L1", !.loginMethod = "POST",
                         !.loginBody = "B1", !.tokenPath = "token",
                         !.invalidStatusCodes = codes,
                         !.validityCheckUrl = check] :
        codes \in {<<>>, <<{401}>>},
        check \in {Absent, "V1"}}

StaticBearer ==
    Credential("c2", "static", "bearer",
               [EmptyConfig EXCEPT !.token = "tok"], 0, 0)

LoadedCredentials ==
    {<<Credential("c1", "dynamic", "autoToken", cfg, 0, 0), StaticBearer>> :
        cfg \in AutoTokenConfigs}

-----------------------------------------------------------------------------
(* The call layer of packages/api-testing: callApi -> makeApiCall and      *)
(* callRawApi, with the token cache of utils/api-client.ts.                *)

Procs == {"p1", "p2"}

\* A token is a positive number; 0 stands for "no dynamic token".
\* headers is params.headers, sent is the header map of the latest target
\* request.
IdleCall ==
    [pc |-> "idle", kind |-> "none", cred |-> <<>>, url |-> MalformedUrl,
     attempt |-> 0, token |-> 0, cached |-> 0, fromCache |-> FALSE,
     firstToken |-> 0, firstStatus |-> 0, lastStatus |-> 0, probeStatus |-> 0,
     nTarget |-> 0, nLogin |-> 0, nProbe |-> 0, result |-> <<>>,
     lastLogin |-> "none", headers |-> <<>>, sent |-> <<>>]

\* what fetch() does: resolve with a status, or reject
NetworkOutcomes ==
    {[kind |-> "status", status |-> s] : s \in Statuses}
        \cup {[kind |-> "reject", status |-> 0]}

\* what the login endpoint answers: a 2xx body with a string at tokenPath,
\* a 2xx body without one, a non-2xx status, or no answer at all
LoginOutcomes ==
    {[kind |-> "token", status |-> 200], [kind |-> "notoken", status |-> 200],
     [kind |-> "status", status |-> 500], [kind |-> "reject", status |-> 0]}

\* tokenCache.get(id)?.token, 0 for undefined
getCachedToken(cache, id) == IF id \in DOMAIN cache THEN cache[id].token ELSE 0

\* mutation of clearCachedToken: the eviction empties the whole cache
clearAllCachedTokens(cache, id) == [k \in {} |-> cache[k]]

\* mutation of clearCachedToken: the eviction that deletes nothing
keepCachedToken(cache, id) == cache

\* tokenCache.delete(id)
clearCachedToken(cache, id) == [k \in DOMAIN cache \ {id} |-> cache[k]]

\* mutation of setCachedToken: an entry that exists is not overwritten
setCachedTokenIfAbsent(cache, id, token) ==
    IF id \in DOMAIN cache THEN cache
    ELSE [k \in DOMAIN cache \cup {id} |->
             IF k = id THEN [credentialId |-> id, token |-> token, obtainedAt |-> clock]
             ELSE cache[k]]

\* tokenCache.set(id, {credentialId, token, obtainedAt: Date.now()})
setCachedToken(cache, id, token) ==
    [k \in DOMAIN cache \cup {id} |->
        IF k = id THEN [credentialId |-> id, token |-> token, obtainedAt |-> clock]
        ELSE cache[k]]

\* mutation of ToolCatch: the error escapes the tool instead of being caught
ToolThrow(c, message) == [c EXCEPT !.pc = "thrown"]

\* An error message is <<text>>, or <<text, url>> when it quotes the URL.
\* the catch block of callApi / callRawApi: the structured failure
ToolCatch(c, message) ==
    [c EXCEPT !.pc = "done",
              !.result = <<[success |-> FALSE, status |-> 0, error |-> message]>>]

\* an early `return {success: false, error}` of the tool layer
ToolReject(c, message) ==
    [c EXCEPT !.pc = "done",
              !.result = <<[success |-> FALSE, status |-> 0, error |-> message]>>]

\* `return {success: true, response}`
ToolReturn(c, status) ==
    [c EXCEPT !.pc = "done",
              !.result = <<[success |-> TRUE, status |-> status, error |-> <<>>]>>]

\* JavaScript truthiness of an optional string
Truthy(x) == x \notin {Absent, ""}

\* A header map is a function from header names to values; a value is a
\* sequence of its parts, <<"Bearer ", token>> for `Bearer ${token}`.
DefaultHeaders ==
    [n \in {"Content-Type", "Accept"} |-> <<"application/json">>]

\* {...base, ...over} and Object.assign(base, over)
Overlay(base, over) ==
    [n \in DOMAIN base \cup DOMAIN over |->
        IF n \in DOMAIN over THEN over[n] ELSE base[n]]

\* headers[name] = value
SetHeader(headers, name, value) == Overlay(headers, name :> value)

\* mutation of AssignCustomHeaders: the loop stops after the first header
AssignFirstCustomHeader(headers, list) ==
    IF list = <<>> THEN headers
    ELSE Overlay(headers, list[1].name :> list[1].value)

\* for (const header of config.customHeaders) headers[header.name] = header.value
RECURSIVE AssignCustomHeaders(_, _)
AssignCustomHeaders(headers, list) ==
    IF list = <<>> THEN headers
    ELSE AssignCustomHeaders(SetHeader(headers, list[1].name, list[1].value),
                             Tail(list))

\* mutation of applyStaticCredential: the header of the type is written
\* without looking at whether its fields are there
applyStaticUnguarded(headers, credential) ==
    LET type == credential.type
        config == credential.config
    IN  IF type = "apiKey"
        THEN SetHeader(headers, "X-API-Key", <<config.apiKey>>)
        ELSE IF type = "bearer"
        THEN SetHeader(headers, "Authorization", <<"Bearer ", config.token>>)
        ELSE IF type = "basic"
        THEN SetHeader(headers, "Authorization",
                       <<"Basic ", "base64", config.username, ":", config.password>>)
        ELSE IF type = "oauth2"
        THEN SetHeader(headers, "Authorization", <<"Bearer ", config.accessToken>>)
        ELSE SetHeader(headers, "X-Custom", <<>>)

\* the cases of the switch of applyCredentials / applyCredentialsToHeaders
\* that send no request: every type but autoToken
applyStaticCredential(headers, credential) ==
    LET type == credential.type
        config == credential.config
    IN  IF type = "apiKey"
        THEN IF Truthy(config.apiKeyHeader) /\ Truthy(config.apiKey)
             THEN SetHeader(headers, config.apiKeyHeader, <<config.apiKey>>)
             ELSE headers
        ELSE IF type = "bearer"
        THEN IF Truthy(config.token)
             THEN SetHeader(headers, "Authorization", <<"Bearer ", config.token>>)
             ELSE headers
        ELSE IF type = "basic"
        THEN IF Truthy(config.username) /\ Truthy(config.password)
             THEN SetHeader(headers, "Authorization",
                            <<"Basic ", "base64", config.username, ":", config.password>>)
             ELSE headers
        ELSE IF type = "oauth2"
        THEN IF Truthy(config.accessToken)
             THEN SetHeader(headers, "Authorization", <<"Bearer ", config.accessToken>>)
             ELSE headers
        ELSE IF type = "custom"
        THEN IF config.headers # <<>> THEN Overlay(headers, config.headers[1])
             ELSE headers
        ELSE IF type = "customHeaders"
        THEN IF config.customHeaders # <<>>
             THEN AssignCustomHeaders(headers, config.customHeaders[1])
             ELSE headers
        ELSE headers

\* mutation of RequestHeaders: the header map is rebuilt from the defaults
\* alone, without the caller's headers
RequestHeadersDefaultsOnly(c) ==
    IF c.cred = <<>> THEN DefaultHeaders
    ELSE IF c.cred[1].type = "autoToken"
    THEN SetHeader(DefaultHeaders, "Authorization", <<"Bearer ", c.token>>)
    ELSE applyStaticCredential(DefaultHeaders, c.cred[1])

\* requestHeaders / retryHeaders: the defaults, the caller's headers over
\* them, then the credential (tokenHeader and tokenPrefix at their defaults)
RequestHeaders(c) ==
    LET headers == Overlay(DefaultHeaders, c.headers)
    IN  IF c.cred = <<>> THEN headers
        ELSE IF c.cred[1].type = "autoToken"
        THEN SetHeader(headers, "Authorization", <<"Bearer ", c.token>>)
        ELSE applyStaticCredential(headers, c.cred[1])

\* executeRequest / executeRawRequest up to its fetch(url, fetchOptions)
SendTarget(c) ==
    [c EXCEPT !.pc = "target", !.nTarget = @ + 1,
              !.firstToken = IF c.attempt = 1 THEN c.token ELSE @,
              !.sent = <<RequestHeaders(c)>>]

\* performLogin / performAutoTokenLogin up to its fetch(config.loginUrl)
SendLogin(c) ==
    IF c.cred[1].config.loginUrl = Absent
    THEN ToolCatch(c, <<"loginUrl is required for autoToken credential">>)
    ELSE [c EXCEPT !.pc = "login", !.nLogin = @ + 1]

\* checkTokenValidity up to its fetch(config.validityCheckUrl)
SendProbe(c) == [c EXCEPT !.pc = "probe", !.nProbe = @ + 1]

\* getAutoToken, from its start to its first fetch
getAutoToken(c, cache) ==
    LET token == getCachedToken(cache, c.cred[1].id)
    IN  IF token # 0
        THEN LET held == [c EXCEPT !.cached = token,
                                   !.fromCache = (c.attempt = 1) \/ @]
             IN  IF c.cred[1].config.validityCheckUrl = Absent
                 THEN SendTarget([held EXCEPT !.token = token])
                 ELSE SendProbe(held)
        ELSE SendLogin(c)

\* applyCredentials of utils/api-client.ts, then executeRequest
applyCredentials(c, cache) ==
    IF c.cred # <<>> /\ c.cred[1].type = "autoToken"
    THEN getAutoToken(c, cache)
    ELSE SendTarget(c)

\* applyCredentialsToHeaders of tools/api-call.ts, then executeRawRequest
applyCredentialsToHeaders(c, cache) ==
    IF c.cred # <<>> /\ c.cred[1].type = "autoToken"
    THEN LET token == getCachedToken(cache, c.cred[1].id)
         IN  IF token = 0
             THEN SendLogin(c)
             ELSE SendTarget([c EXCEPT !.token = token, !.cached = token,
                                       !.fromCache = (c.attempt = 1) \/ @])
    ELSE SendTarget(c)

ApplyFor(c, cache) ==
    IF c.kind = "api" THEN applyCredentials(c, cache)
    ELSE applyCredentialsToHeaders(c, cache)

\* the replace loop of buildUrl with pathParams = {id: "b"} (or none)
ResolvePath(path, withParams) ==
    [i \in 1..Len(path) |->
        IF path[i] = "{id}" /\ withParams THEN "b" ELSE path[i]]

\* the directory of a pathname: everything up to its last "/"
RECURSIVE DirOf(_)
DirOf(pathname) ==
    IF pathname = <<>> \/ pathname[Len(pathname)] = "/" THEN pathname
    ELSE DirOf(SubSeq(pathname, 1, Len(pathname) - 1))

\* new URL(resolvedPath, baseUrl) for a path reference: a reference that
\* starts with "/" replaces the base's path, any other is resolved against
\* the base's directory.  (Called only with a base that parses.)
buildUrl(baseUrl, path, withParams) ==
    LET resolvedPath == ResolvePath(path, withParams)
        base == ParseUrl(baseUrl)
    IN  Url(base.protocol, base.host,
            IF resolvedPath # <<>> /\ resolvedPath[1] = "/" THEN resolvedPath
            ELSE DirOf(base.pathname) \o resolvedPath)

\* params.path.match(/\{(\w+)\}/g) and the check of params.pathParams
MissingPathParam(path, withParams) ==
    /\ \E i \in 1..Len(path) : path[i] = "{id}"
    /\ ~withParams

\* callApi, from its start to the first fetch of makeApiCall
callApiStart(c, docId, path, withParams, credId, cache) ==
    LET apiDoc == getApiDoc(docId)
        credential == IF credId = Absent THEN <<>> ELSE getCredential(credId)
        req == [c EXCEPT !.kind = "api"]
    IN  IF apiDoc = <<>> THEN ToolReject(req, <<"API doc not found">>)
        ELSE IF path \notin apiDoc[1].endpoints
        THEN ToolReject(req, <<"Endpoint not found">>)
        ELSE IF credId # Absent /\ credential = <<>>
        THEN ToolReject(req, <<"Credential not found">>)
        ELSE IF MissingPathParam(path, withParams)
        THEN ToolReject(req, <<"Missing required path parameter">>)
        ELSE IF ~UrlParses(apiDoc[1].baseUrl)
        THEN ToolCatch(req, <<"Invalid URL">>)
        ELSE applyCredentials(
                 [req EXCEPT !.cred = credential, !.attempt = 1,
                             !.url = buildUrl(apiDoc[1].baseUrl, path, withParams)],
                 cache)

\* mutation of callRawApiStart: the credential is looked up and applied
\* (its login started) before the whitelist is consulted
callRawApiCredentialFirst(c, url, credId, cache) ==
    LET validation == validateUrlAgainstWhitelist(url, getWhitelistedBaseUrls)
        credential == IF credId = Absent THEN <<>> ELSE getCredential(credId)
        req == [c EXCEPT !.kind = "raw", !.url = url]
        applied == applyCredentialsToHeaders(
                       [req EXCEPT !.cred = credential, !.attempt = 1], cache)
    IN  IF credId # Absent /\ credential = <<>>
        THEN ToolReject(req, <<"Credential not found">>)
        ELSE IF ~validation.valid /\ applied.pc = "target"
        THEN ToolReject(req, <<"URL is not whitelisted: ", url>>)
        ELSE applied

\* `new URL(text)` of the URLs the stored credentials name
CredentialUrl(text) ==
    IF text = "L1" THEN Url("https", "auth", <<"/", "login">>)
    ELSE IF text = "V1" THEN Url("https", "auth", <<"/", "me">>)
    ELSE MalformedUrl

\* the URL of the fetch a call is waiting for
RequestUrl(c) ==
    IF c.pc = "login" THEN CredentialUrl(c.cred[1].config.loginUrl)
    ELSE IF c.pc = "probe" THEN CredentialUrl(c.cred[1].config.validityCheckUrl)
    ELSE c.url

\* callRawApi, from its start to its first fetch
callRawApiStart(c, url, credId, cache) ==
    LET validation == validateUrlAgainstWhitelist(url, getWhitelistedBaseUrls)
        credential == IF credId = Absent THEN <<>> ELSE getCredential(credId)
        req == [c EXCEPT !.kind = "raw", !.url = url]
    IN  IF ~validation.valid THEN ToolReject(req, <<"URL is not whitelisted: ", url>>)
        ELSE IF credId # Absent /\ credential = <<>>
        THEN ToolReject(req, <<"Credential not found">>)
        ELSE applyCredentialsToHeaders(
                 [req EXCEPT !.cred = credential, !.attempt = 1], cache)

\* the codes checkTokenValidity classifies with
ProbeInvalidCodes(config) ==
    IF config.invalidStatusCodes = <<>> THEN {401, 403}
    ELSE config.invalidStatusCodes[1]

\* mutation of checkTokenValidity: every probe answer counts as invalid
probeAlwaysInvalid(config, o) == FALSE

\* mutation of checkTokenValidity: a probe that got no answer counts as valid
probeRejectCountsValid(config, o) ==
    \/ o.kind = "reject"
    \/ o.status \notin ProbeInvalidCodes(config)

\* checkTokenValidity after its fetch: the catch makes a rejection invalid
checkTokenValidity(config, o) ==
    /\ o.kind = "status"
    /\ o.status \notin ProbeInvalidCodes(config)

\* mutation of RetryGate: the gate is consulted after every attempt
RetryGateEveryAttempt(c, status) ==
    /\ c.cred # <<>>
    /\ c.cred[1].type = "autoToken"
    /\ c.cred[1].config.invalidStatusCodes # <<>>
    /\ status \in c.cred[1].config.invalidStatusCodes[1]

\* mutation of RetryGate: the credential's type is not looked at
RetryGateAnyType(c, status) ==
    /\ c.attempt = 1
    /\ c.cred # <<>>
    /\ c.cred[1].config.invalidStatusCodes # <<>>
    /\ status \in c.cred[1].config.invalidStatusCodes[1]

\* mutation of RetryGate: every non-200 answer counts as a rejected token
RetryGateAnyFailure(c, status) ==
    /\ c.attempt = 1
    /\ c.cred # <<>>
    /\ c.cred[1].type = "autoToken"
    /\ status # 200

\* the retry gate of makeApiCall and callRawApi:
\* credential?.type === 'autoToken' &&
\* credential.config.invalidStatusCodes?.includes(response.status)
RetryGate(c, status) ==
    /\ c.attempt = 1
    /\ c.cred # <<>>
    /\ c.cred[1].type = "autoToken"
    /\ c.cred[1].config.invalidStatusCodes # <<>>
    /\ status \in c.cred[1].config.invalidStatusCodes[1]

\* performLogin caches the token it extracted; performAutoTokenLogin of
\* tools/api-call.ts only returns it
LoginCaches(c) == c.kind = "api"

\* the message of the error a failed login throws
LoginError(o) ==
    IF o.kind = "status" THEN <<"Login failed: 500">>
    ELSE IF o.kind = "notoken" THEN <<"Failed to extract token from login response">>
    ELSE <<"fetch failed">>

\* the message of the error a rejected target fetch throws: executeRequest
\* wraps it, executeRawRequest lets the TypeError of fetch through
TargetError(c) ==
    IF c.kind = "api" THEN <<"Network error: fetch failed">> ELSE <<"fetch failed">>

\* The login endpoint issues a token that differs from every token the
\* system still holds (in the cache or in an invocation in flight): the
\* least such number.
TokensHeld ==
    {tokenCache[k].token : k \in DOMAIN tokenCache}
        \cup UNION {{calls[p].token, calls[p].cached, calls[p].firstToken} :
                       p \in Procs}

FreshToken == CHOOSE t \in 1..(Cardinality(TokensHeld) + 1) : t \notin TokensHeld

\* params.headers: one caller adds a header, the other overrides a default
CallerHeaders(p) ==
    IF p = "p1" THEN "X-Trace" :> <<"t1">> ELSE "Accept" :> <<"text/plain">>

StartCallApi(p, docId, path, withParams, credId) ==
    /\ calls[p].pc = "idle"
    /\ started < MaxCalls
    /\ started' = started + 1
    /\ calls' = [calls EXCEPT ![p] =
           callApiStart([calls[p] EXCEPT !.headers = CallerHeaders(p)],
                        docId, path, withParams, credId, tokenCache)]
    /\ UNCHANGED tokenCache

StartCallRawApi(p, url, credId) ==
    /\ calls[p].pc = "idle"
    /\ started < MaxCalls
    /\ started' = started + 1
    /\ calls' = [calls EXCEPT ![p] =
           callRawApiStart([calls[p] EXCEPT !.headers = CallerHeaders(p)],
                           url, credId, tokenCache)]
    /\ UNCHANGED tokenCache

\* mutation of LoginResponse: a failed login is swallowed and the request
\* goes out with the token the invocation already had
LoginResponseLenient(p, o) ==
    LET c == [calls[p] EXCEPT !.lastLogin = o.kind]
    IN  /\ calls[p].pc = "login"
        /\ calls' = [calls EXCEPT ![p] =
               SendTarget(IF o.kind = "token" THEN [c EXCEPT !.token = FreshToken]
                          ELSE c)]
        /\ tokenCache' = IF o.kind = "token" /\ LoginCaches(c)
                         THEN setCachedToken(tokenCache, c.cred[1].id, FreshToken)
                         ELSE tokenCache
        /\ UNCHANGED started

\* the login fetch completes: the rest of performLogin, then the request
LoginResponse(p, o) ==
    LET c == [calls[p] EXCEPT !.lastLogin = o.kind]
    IN  /\ calls[p].pc = "login"
        /\ IF o.kind = "token"
           THEN /\ tokenCache' = IF LoginCaches(c)
                                 THEN setCachedToken(tokenCache, c.cred[1].id, FreshToken)
                                 ELSE tokenCache
                /\ calls' = [calls EXCEPT ![p] =
                       SendTarget([c EXCEPT !.token = FreshToken])]
           ELSE /\ calls' = [calls EXCEPT ![p] = ToolCatch(c, LoginError(o))]
                /\ UNCHANGED tokenCache
        /\ UNCHANGED started

\* the validity probe completes: the rest of getAutoToken
ProbeResponse(p, o) ==
    LET c == calls[p]
        seen == [c EXCEPT !.probeStatus = o.status]
    IN  /\ c.pc = "probe"
        /\ IF checkTokenValidity(c.cred[1].config, o)
           THEN /\ calls' = [calls EXCEPT ![p] =
                       SendTarget([seen EXCEPT !.token = c.cached])]
                /\ UNCHANGED tokenCache
           ELSE /\ tokenCache' = clearCachedToken(tokenCache, c.cred[1].id)
                /\ calls' = [calls EXCEPT ![p] =
                       SendLogin([seen EXCEPT !.fromCache = FALSE])]
        /\ UNCHANGED started

\* the target fetch completes: the retry gate, or the result
TargetResponse(p, o) ==
    LET c == calls[p]
        seen == [c EXCEPT !.firstStatus = IF c.attempt = 1 THEN o.status ELSE @,
                          !.lastStatus = o.status]
    IN  /\ c.pc = "target"
        /\ IF o.kind = "reject"
           THEN /\ calls' = [calls EXCEPT ![p] = ToolCatch(c, TargetError(c))]
                /\ UNCHANGED tokenCache
           ELSE IF RetryGate(c, o.status)
           THEN /\ tokenCache' = clearCachedToken(tokenCache, c.cred[1].id)
                /\ calls' = [calls EXCEPT ![p] =
                       ApplyFor([seen EXCEPT !.attempt = 2], tokenCache')]
           ELSE /\ calls' = [calls EXCEPT ![p] = ToolReturn(seen, o.status)]
                /\ UNCHANGED tokenCache
        /\ UNCHANGED started

\* the caller has its result; the invocation is over
Return(p) ==
    /\ calls[p].pc = "done"
    /\ calls' = [calls EXCEPT ![p] = IdleCall]
    /\ UNCHANGED <<tokenCache, started>>

-----------------------------------------------------------------------------
(* Credential admission of api-scout: addCredential, updateCredential and  *)
(* removeCredential of tools/credentials.ts over the Storage class.        *)

AdmProcs == {"a1", "a2"}

\* the id the operations are called with; the store holds another
\* credential, "c2", from the start
CredIds == {"c1"}

IdleAdm ==
    [pc |-> "idle", op |-> "none", id |-> Absent, skip |-> FALSE,
     temp |-> <<>>, updates |-> <<>>, nLogin |-> 0, loginOk |-> "none",
     result |-> <<>>, offered |-> 0, params |-> <<>>, found |-> FALSE,
     queued |-> 0]

\* the most headers a customHeaders credential may carry
MaxCustomHeaders == 5

\* params.customHeaders.length, 0 when the parameter is undefined
OfferedHeaders(params) ==
    IF params.customHeaders = <<>> THEN 0 ELSE Len(params.customHeaders[1])

\* mutation of SchemaAccepts: the arguments reach the handler unparsed
SchemaAcceptsAny(params) == TRUE

\* addCredentialSchema.parse(args) and updateCredentialSchema.parse(args) of
\* the tool dispatch: customHeaders is `.min(1).max(5).optional()`
SchemaAccepts(params) ==
    \/ params.customHeaders = <<>>
    \/ Len(params.customHeaders[1]) \in 1..MaxCustomHeaders

\* the parameters of add_credential
AddParams ==
    [id : CredIds, name : {"n1"}, type : {"apiKey", "bearer"},
     apiKey : {Absent, "k1"}, token : {Absent, "tok"},
     loginUrl : {Absent, "L1"}, loginBody : {Absent, "B1"},
     loginMethod : {Absent}, username : {Absent}, password : {Absent},
     headers : {<<>>},
     skipValidityCheck : BOOLEAN, customHeaders : {<<>>}]

\* the parameters of update_credential
UpdateParams ==
    [id : CredIds, name : {Absent, "n2"}, apiKey : {Absent},
     token : {Absent, "tok2"}, loginUrl : {Absent, "L2", ""},
     loginBody : {Absent}, loginMethod : {Absent},
     skipValidityCheck : BOOLEAN, customHeaders : {<<>>}]

\* `return {success: false, error}`, also from the catch block
AdmFail(r, message) ==
    [r EXCEPT !.pc = "done",
              !.result = <<[success |-> FALSE, error |-> message]>>]

\* `return {success: true, credential}`
AdmOk(r) ==
    [r EXCEPT !.pc = "done", !.result = <<[success |-> TRUE, error |-> ""]>>]

\* the switch of addCredential that builds config from params
addCredentialConfig(params) ==
    IF params.type = "apiKey"
    THEN IF ~Truthy(params.apiKey)
         THEN [ok |-> FALSE, error |-> "apiKey is required for apiKey type",
               config |-> EmptyConfig]
         ELSE [ok |-> TRUE, error |-> "",
               config |-> [EmptyConfig EXCEPT !.apiKey = params.apiKey,
                                              !.apiKeyHeader = "X-API-Key"]]
    ELSE IF params.type = "customHeaders"
    THEN IF params.customHeaders = <<>> \/ Len(params.customHeaders[1]) = 0
         THEN [ok |-> FALSE,
               error |-> "customHeaders (1-5 headers) are required for customHeaders type",
               config |-> EmptyConfig]
         ELSE IF Len(params.customHeaders[1]) > MaxCustomHeaders
         THEN [ok |-> FALSE,
               error |-> "customHeaders type supports maximum 5 headers",
               config |-> EmptyConfig]
         ELSE [ok |-> TRUE, error |-> "",
               config |-> [EmptyConfig EXCEPT !.customHeaders = params.customHeaders]]
    ELSE IF params.type = "basic"
    THEN IF ~Truthy(params.username) \/ ~Truthy(params.password)
         THEN [ok |-> FALSE,
               error |-> "username and password are required for basic type",
               config |-> EmptyConfig]
         ELSE [ok |-> TRUE, error |-> "",
               config |-> [EmptyConfig EXCEPT !.username = params.username,
                                              !.password = params.password]]
    ELSE IF params.type = "custom"
    THEN IF params.headers = <<>> \/ DOMAIN params.headers[1] = {}
         THEN [ok |-> FALSE, error |-> "headers are required for custom type",
               config |-> EmptyConfig]
         ELSE [ok |-> TRUE, error |-> "",
               config |-> [EmptyConfig EXCEPT !.headers = params.headers]]
    ELSE IF ~Truthy(params.token) /\ ~Truthy(params.loginUrl)
    THEN [ok |-> FALSE,
          error |-> "Either token or loginUrl is required for bearer type",
          config |-> EmptyConfig]
    ELSE IF Truthy(params.loginUrl) /\ ~Truthy(params.loginBody)
    THEN [ok |-> FALSE,
          error |-> "loginBody is required when loginUrl is provided",
          config |-> EmptyConfig]
    ELSE LET withToken == IF Truthy(params.token)
                          THEN [EmptyConfig EXCEPT !.token = params.token]
                          ELSE EmptyConfig
         IN  [ok |-> TRUE, error |-> "",
              config |-> IF Truthy(params.loginUrl)
                         THEN [withToken EXCEPT
                                  !.loginUrl = params.loginUrl,
                                  !.loginMethod =
                                      IF Truthy(params.loginMethod)
                                      THEN params.loginMethod ELSE "POST",
                                  !.loginBody = params.loginBody,
                                  !.tokenPath = "token",
                                  !.invalidStatusCodes = <<{401, 403}>>]
                         ELSE withToken]

\* mutation of addCredentialVerifies: the credential is saved unverified
addCredentialNeverVerifies(config, skipValidityCheck) == FALSE

\* `if (config.loginUrl && !params.skipValidityCheck)` of addCredential
addCredentialVerifies(config, skipValidityCheck) ==
    Truthy(config.loginUrl) /\ ~skipValidityCheck

\* `const newConfig = {...existing.config}` and the assignments from params
newConfig(existing, params) ==
    [existing.config EXCEPT
        !.apiKey = IF params.apiKey # Absent THEN params.apiKey ELSE @,
        !.token = IF params.token # Absent THEN params.token ELSE @,
        !.customHeaders = IF params.customHeaders # <<>>
                          THEN params.customHeaders ELSE @,
        !.loginBody = IF params.loginBody # Absent THEN params.loginBody ELSE @,
        !.loginUrl = IF params.loginUrl # Absent THEN params.loginUrl ELSE @,
        !.loginMethod = IF params.loginMethod # Absent
                        THEN params.loginMethod ELSE @]

\* `if (newConfig.loginUrl && !params.skipValidityCheck)` of updateCredential
\* with its inner test of updates.config, which is newConfig itself
updateCredentialVerifies(config, skipValidityCheck) ==
    /\ Truthy(config.loginUrl) /\ ~skipValidityCheck
    /\ \/ Truthy(config.loginUrl) \/ Truthy(config.loginMethod)
       \/ Truthy(config.loginBody) \/ Truthy(config.refreshUrl)

\* mutation of tempCredential: the stored credential is what gets tested
tempCredentialFromExisting(existing, updates) == existing

\* `{...existing, ...updates, config: newConfig}`
tempCredential(existing, updates) ==
    [existing EXCEPT !.config = updates.config,
                     !.name = IF updates.name = Absent THEN @ ELSE updates.name]

\* testLogin, up to its login request
testCredentialLogin(r) == [r EXCEPT !.pc = "testing", !.nLogin = @ + 1]

\* Storage.addCredential after its existence check
StorageAddCredential(list, credential) == Append(list, credential)

\* Storage.updateCredential after its findIndex
StorageUpdateCredential(list, id, updates, now) ==
    [list EXCEPT ![FindIndex(list, id)] =
        [@ EXCEPT !.config = updates.config,
                  !.name = IF updates.name = Absent THEN @ ELSE updates.name,
                  !.updatedAt = now]]

\* Storage.removeCredential after its findIndex: splice(index, 1)
StorageRemoveCredential(list, id) ==
    LET index == FindIndex(list, id)
    IN  SubSeq(list, 1, index - 1) \o SubSeq(list, index + 1, Len(list))

\* `await storage.addCredential(credential)` and the return of addCredential;
\* the error Storage.addCredential throws lands in the catch block
SaveAdded(a, r) ==
    IF getCredential(r.temp[1].id) # <<>>
    THEN /\ adm' = [adm EXCEPT ![a] =
                AdmFail(r, "Credential with id already exists")]
         /\ UNCHANGED <<credentials, clock>>
    ELSE /\ credentials' = StorageAddCredential(credentials, r.temp[1])
         /\ clock' = clock + 1
         /\ adm' = [adm EXCEPT ![a] = AdmOk(r)]

\* `await storage.updateCredential(params.id, updates)` and the return of
\* updateCredential; the error Storage.updateCredential throws is caught
SaveUpdated(a, r) ==
    IF FindIndex(credentials, r.id) = 0
    THEN /\ adm' = [adm EXCEPT ![a] = AdmFail(r, "Credential with id not found")]
         /\ UNCHANGED <<credentials, clock>>
    ELSE /\ credentials' =
                StorageUpdateCredential(credentials, r.id, r.updates[1], clock)
         /\ clock' = clock + 1
         /\ adm' = [adm EXCEPT ![a] = AdmOk(r)]

\* addCredential, from its start to the login request of its verification,
\* or to its return when it does not verify
StartAddCredential(a, params) ==
    LET built == addCredentialConfig(params)
        r == [adm[a] EXCEPT !.op = "add", !.id = params.id,
                            !.skip = params.skipValidityCheck,
                            !.offered = OfferedHeaders(params)]
        credential == Credential(params.id, params.name, params.type,
                                 built.config, clock, clock)
        held == [r EXCEPT !.temp = <<credential>>]
    IN  /\ adm[a].pc = "idle"
        /\ admStarted < MaxAdmOps
        /\ admStarted' = admStarted + 1
        /\ IF ~SchemaAccepts(params)
           THEN /\ adm' = [adm EXCEPT ![a] = AdmFail(r, "ZodError")]
                /\ UNCHANGED <<credentials, clock>>
           ELSE IF getCredential(params.id) # <<>>
           THEN /\ adm' = [adm EXCEPT ![a] = AdmFail(r, "Credential already exists")]
                /\ UNCHANGED <<credentials, clock>>
           ELSE IF ~built.ok
           THEN /\ adm' = [adm EXCEPT ![a] = AdmFail(r, built.error)]
                /\ UNCHANGED <<credentials, clock>>
           ELSE IF addCredentialVerifies(built.config, params.skipValidityCheck)
           THEN /\ adm' = [adm EXCEPT ![a] = testCredentialLogin(held)]
                /\ UNCHANGED <<credentials, clock>>
           ELSE SaveAdded(a, held)

\* updateCredential, from its start to the login request of its
\* verification, or to its return when it does not verify
StartUpdateCredential(a, params) ==
    LET existing == getCredential(params.id)
        r == [adm[a] EXCEPT !.op = "update", !.id = params.id,
                            !.skip = params.skipValidityCheck,
                            !.offered = OfferedHeaders(params)]
    IN  /\ adm[a].pc = "idle"
        /\ admStarted < MaxAdmOps
        /\ admStarted' = admStarted + 1
        /\ IF ~SchemaAccepts(params)
           THEN /\ adm' = [adm EXCEPT ![a] = AdmFail(r, "ZodError")]
                /\ UNCHANGED <<credentials, clock>>
           ELSE IF existing = <<>>
           THEN /\ adm' = [adm EXCEPT ![a] = AdmFail(r, "Credential not found")]
                /\ UNCHANGED <<credentials, clock>>
           ELSE IF OfferedHeaders(params) > MaxCustomHeaders
           THEN /\ adm' = [adm EXCEPT ![a] =
                       AdmFail(r, "customHeaders supports maximum 5 headers")]
                /\ UNCHANGED <<credentials, clock>>
           ELSE LET updates == [config |-> newConfig(existing[1], params),
                                name |-> params.name]
                    held == [r EXCEPT
                                !.updates = <<updates>>,
                                !.temp = <<tempCredential(existing[1], updates)>>]
                IN  IF updateCredentialVerifies(updates.config,
                                                params.skipValidityCheck)
                    THEN /\ adm' = [adm EXCEPT ![a] = testCredentialLogin(held)]
                         /\ UNCHANGED <<credentials, clock>>
                    ELSE SaveUpdated(a, held)

\* the login request of testCredentialLogin completes: it returns, or it
\* throws into the catch that rejects the operation
TestLoginResponse(a, ok) ==
    LET r == [adm[a] EXCEPT !.loginOk = IF ok THEN "ok" ELSE "failed"]
    IN  /\ adm[a].pc = "testing"
        /\ IF ~ok
           THEN /\ adm' = [adm EXCEPT ![a] =
                       AdmFail(r, "Credential verification failed")]
                /\ UNCHANGED <<credentials, clock>>
           ELSE IF r.op = "add" THEN SaveAdded(a, r)
           ELSE SaveUpdated(a, r)
        /\ UNCHANGED admStarted

\* removeCredential: no network request, one step
RemoveCredential(a, id) ==
    LET r == [adm[a] EXCEPT !.op = "remove", !.id = id]
    IN  /\ adm[a].pc = "idle"
        /\ admStarted < MaxAdmOps
        /\ admStarted' = admStarted + 1
        /\ IF FindIndex(credentials, id) = 0
           THEN /\ adm' = [adm EXCEPT ![a] = AdmFail(r, "Credential not found")]
                /\ UNCHANGED <<credentials, clock>>
           ELSE /\ credentials' = StorageRemoveCredential(credentials, id)
                /\ clock' = clock + 1
                /\ adm' = [adm EXCEPT ![a] = AdmOk(r)]

\* the caller has its result; the operation is over
AdmReturn(a) ==
    /\ adm[a].pc = "done"
    /\ adm' = [adm EXCEPT ![a] = IdleAdm]
    /\ UNCHANGED <<credentials, admStarted, clock>>

\* validateUrlAgainstWhitelist applied to the inputs
Validate ==
    /\ wlResult = <<>>
    /\ wlResult' = <<validateUrlAgainstWhitelist(wlUrl, wlList)>>
    /\ UNCHANGED <<wlUrl, wlList>>

DocIds == {"d1", "dx"}
CallPaths == EndpointPaths \cup {<<"/", "a">>}
CallCredIds == {Absent, "c1", "c2", "cx"}
RawUrls == {Url("https", "api", <<"/", "a", "/", "b">>),
            Url("https", "api", <<"/", "b">>),
            Url("https", "evil", <<"/", "a", "/", "b">>)}

\* the parts of the initial state a specification does not exercise
SchemaQuiet == schemas = [named |-> <<>>, nodes |-> <<>>] /\ stack = <<>> /\ returned = <<>>

PathQuiet == jsonValue = Undefined /\ jsonPath = <<>> /\ lookup = <<>> /\ SchemaQuiet

UrlQuiet == wlUrl = MalformedUrl /\ wlList = <<>> /\ wlResult = <<>>

CallQuiet ==
    /\ tokenCache = <<>>
    /\ calls = [p \in Procs |-> IdleCall]
    /\ started = 0

CredQuiet ==
    /\ adm = [a \in AdmProcs |-> IdleAdm]
    /\ admStarted = 0
    /\ clock = 1

\* the server after start-up, with the store loaded from disk
Init ==
    /\ UrlQuiet
    /\ PathQuiet
    /\ apiDocs \in LoadedDocs
    /\ credentials \in LoadedCredentials
    /\ CallQuiet
    /\ CredQuiet

Next ==
    \/ \E p \in Procs, docId \in DocIds, path \in CallPaths,
          withParams \in BOOLEAN, credId \in CallCredIds :
           /\ StartCallApi(p, docId, path, withParams, credId)
           /\ UNCHANGED <<urlVars, pathVars, apiDocs, credentials, credVars>>
    \/ \E p \in Procs, url \in RawUrls, credId \in CallCredIds :
           /\ StartCallRawApi(p, url, credId)
           /\ UNCHANGED <<urlVars, pathVars, apiDocs, credentials, credVars>>
    \/ \E p \in Procs, o \in LoginOutcomes :
           /\ LoginResponse(p, o)
           /\ UNCHANGED <<urlVars, pathVars, apiDocs, credentials, credVars>>
    \/ \E p \in Procs, o \in NetworkOutcomes :
           /\ ProbeResponse(p, o)
           /\ UNCHANGED <<urlVars, pathVars, apiDocs, credentials, credVars>>
    \/ \E p \in Procs, o \in NetworkOutcomes :
           /\ TargetResponse(p, o)
           /\ UNCHANGED <<urlVars, pathVars, apiDocs, credentials, credVars>>
    \/ \E p \in Procs :
           /\ Return(p)
           /\ UNCHANGED <<urlVars, pathVars, apiDocs, credentials, credVars>>

Spec == Init /\ [][Next]_vars

\* the request the invocation waits for gets its response or its network
\* error
Respond(p) ==
    /\ \/ \E o \in LoginOutcomes : LoginResponse(p, o)
       \/ \E o \in NetworkOutcomes : ProbeResponse(p, o)
       \/ \E o \in NetworkOutcomes : TargetResponse(p, o)
    /\ UNCHANGED <<urlVars, pathVars, apiDocs, credentials, credVars>>

\* the store holds a dynamic credential with a validity probe
InitLive ==
    /\ UrlQuiet
    /\ PathQuiet
    /\ apiDocs \in LoadedDocs
    /\ credentials =
           <<Credential("c1", "dynamic", "autoToken",
                        [EmptyConfig EXCEPT !.loginUrl = "L1", !.loginMethod = "POST",
                                            !.loginBody = "B1", !.tokenPath = "token",
                                            !.invalidStatusCodes = <<{401}>>,
                                            !.validityCheckUrl = "V1"], 0, 0),
             StaticBearer>>
    /\ CallQuiet
    /\ CredQuiet

NextLive ==
    \/ \E p \in Procs :
           /\ StartCallApi(p, "d1", <<"b">>, FALSE, "c1")
           /\ UNCHANGED <<urlVars, pathVars, apiDocs, credentials, credVars>>
    \/ /\ StartCallRawApi("p2", Url("https", "api", <<"/", "a", "/", "b">>), "c1")
       /\ UNCHANGED <<urlVars, pathVars, apiDocs, credentials, credVars>>
    \/ \E p \in Procs : Respond(p)
    \/ \E p \in Procs :
           /\ Return(p)
           /\ UNCHANGED <<urlVars, pathVars, apiDocs, credentials, credVars>>

\* the call layer when every request is answered in the end
SpecLive ==
    InitLive /\ [][NextLive]_vars /\ \A p \in Procs : WF_vars(Respond(p))

-----------------------------------------------------------------------------
(* SpecUrl: the whitelist predicate on every bounded target URL and a      *)
(* whitelist of none, one or two entries.                                  *)

WhitelistInputs ==
    {<<>>} \cup {<<w>> : w \in Urls}
        \cup {<<w1, w2>> : w1 \in {MalformedUrl, Url("https", "api", <<"/", "a">>)},
                          w2 \in {Url("https", "api", <<"/">>),
                                  Url("https", "api", <<"/", "a", "/">>)}}

InitUrl ==
    /\ wlUrl \in Urls
    /\ wlList \in WhitelistInputs
    /\ wlResult = <<>>
    /\ PathQuiet
    /\ apiDocs = <<>>
    /\ credentials = <<>>
    /\ CallQuiet
    /\ CredQuiet

NextUrl ==
    Validate /\ UNCHANGED <<pathVars, apiDocs, credentials, callVars, credVars>>

SpecUrl == InitUrl /\ [][NextUrl]_vars

-----------------------------------------------------------------------------
(* SpecAgree: Storage.isUrlWhitelisted and validateUrlAgainstWhitelist on  *)
(* the same target URL and the same registered base URLs.                  *)

\* the characters of a host name
HostChars(host) ==
    IF host = "api" THEN <<"a", "p", "i">>
    ELSE IF host = "apix" THEN <<"a", "p", "i", "x">>
    ELSE IF host = "evil" THEN <<"e", "v", "i", "l">>
    ELSE <<>>

\* the string Storage.normalizeUrl returns, character by character after
\* the scheme: `${parsed.protocol}//${parsed.host}${parsed.pathname}`
NormalizedString(u) ==
    <<normalizeUrl(u).scheme>> \o HostChars(normalizeUrl(u).host)
        \o normalizeUrl(u).path

\* Storage.isUrlWhitelisted over the baseUrl of this.data.apiDocs
isUrlWhitelisted(url, baseUrls) ==
    \E i \in 1..Len(baseUrls) :
        StartsWith(NormalizedString(url), NormalizedString(baseUrls[i]))

\* both predicates applied to the inputs
Compare ==
    /\ wlResult = <<>>
    /\ wlResult' = <<[valid |-> validateUrlAgainstWhitelist(wlUrl, wlList).valid,
                      whitelisted |-> isUrlWhitelisted(wlUrl, wlList)]>>
    /\ UNCHANGED <<wlUrl, wlList>>

InitAgree ==
    /\ wlUrl \in Urls \cup {Url("https", "apix", <<"/", "a">>)}
    /\ wlList \in WhitelistInputs
    /\ wlResult = <<>>
    /\ PathQuiet
    /\ apiDocs = <<>>
    /\ credentials = <<>>
    /\ CallQuiet
    /\ CredQuiet

NextAgree ==
    Compare /\ UNCHANGED <<pathVars, apiDocs, credentials, callVars, credVars>>

SpecAgree == InitAgree /\ [][NextAgree]_vars

-----------------------------------------------------------------------------
(* SpecCred: credential admission on a store that holds one static         *)
(* credential.                                                             *)

InitCred ==
    /\ UrlQuiet
    /\ PathQuiet
    /\ apiDocs = <<>>
    /\ credentials = <<StaticBearer>>
    /\ CallQuiet
    /\ CredQuiet

NextCred ==
    \/ \E a \in AdmProcs, params \in AddParams :
           /\ StartAddCredential(a, params)
           /\ UNCHANGED <<urlVars, pathVars, apiDocs, callVars>>
    \/ \E a \in AdmProcs, params \in UpdateParams :
           /\ StartUpdateCredential(a, params)
           /\ UNCHANGED <<urlVars, pathVars, apiDocs, callVars>>
    \/ \E a \in AdmProcs, ok \in BOOLEAN :
           /\ TestLoginResponse(a, ok)
           /\ UNCHANGED <<urlVars, pathVars, apiDocs, callVars>>
    \/ \E a \in AdmProcs, id \in CredIds :
           /\ RemoveCredential(a, id)
           /\ UNCHANGED <<urlVars, pathVars, apiDocs, callVars>>
    \/ \E a \in AdmProcs :
           /\ AdmReturn(a)
           /\ UNCHANGED <<urlVars, pathVars, apiDocs, callVars>>

SpecCred == InitCred /\ [][NextCred]_vars

-----------------------------------------------------------------------------
(* SpecRequired: addCredential offered every combination of the fields the *)
(* types require.                                                          *)

RequiredFieldAddParams ==
    [id : CredIds, name : {"n1"}, type : {"apiKey", "bearer", "basic", "custom"},
     apiKey : {Absent, "k1"}, token : {Absent, "tok"},
     loginUrl : {Absent, "L1"}, loginBody : {Absent, "B1"},
     loginMethod : {Absent, "GET"}, username : {Absent, "u1"},
     password : {Absent, "pw1"}, headers : {<<>>, <<"X-Trace" :> <<"t1">>>>},
     skipValidityCheck : BOOLEAN, customHeaders : {<<>>}]

NextRequired ==
    \/ \E params \in RequiredFieldAddParams :
           /\ StartAddCredential("a1", params)
           /\ UNCHANGED <<urlVars, pathVars, apiDocs, callVars>>
    \/ \E ok \in BOOLEAN :
           /\ TestLoginResponse("a1", ok)
           /\ UNCHANGED <<urlVars, pathVars, apiDocs, callVars>>
    \/ /\ RemoveCredential("a1", "c1")
       /\ UNCHANGED <<urlVars, pathVars, apiDocs, callVars>>
    \/ /\ AdmReturn("a1")
       /\ UNCHANGED <<urlVars, pathVars, apiDocs, callVars>>

SpecRequired == InitCred /\ [][NextRequired]_vars

-----------------------------------------------------------------------------
(* SpecIds: add_credential followed await by await.  Requests that arrive *)
(* in one chunk of input are dispatched in the same turn of the event     *)
(* loop; their handlers then run in turn, each up to its next await, in    *)
(* the order of the microtask queue (adm[a].queued is the place of a in    *)
(* it, 0 when a is not in it).  A fetch response, a new chunk of requests  *)
(* and the other tools run when that queue is empty.                       *)

Queued == {a \in AdmProcs : adm[a].queued > 0}

AtHead(a) == adm[a].queued = 1

\* a, at the head of the queue, has run up to its next await (requeue) or
\* up to a fetch or its return; the handlers behind it move up
Advance(a, r, requeue) ==
    [b \in AdmProcs |->
        IF b = a
        THEN [r EXCEPT !.queued = IF requeue THEN Cardinality(Queued) ELSE 0]
        ELSE IF adm[b].queued > 0 THEN [adm[b] EXCEPT !.queued = @ - 1]
        ELSE adm[b]]

\* the orders in which one chunk of input brings requests for the handlers
Batches == {<<"a1">>, <<"a2">>, <<"a1", "a2">>, <<"a2", "a1">>}

IdsAddParams ==
    {params \in AddParams :
        /\ ~params.skipValidityCheck
        /\ \/ /\ params.type = "apiKey" /\ params.apiKey = "k1"
              /\ params.token = Absent /\ params.loginUrl = Absent
              /\ params.loginBody = Absent
           \/ /\ params.type = "bearer" /\ params.apiKey = Absent
              /\ params.token = Absent /\ params.loginUrl = "L1"
              /\ params.loginBody = "B1"}

IdsUpdateParams ==
    {params \in UpdateParams :
        params.loginUrl = Absent /\ params.skipValidityCheck}

\* the requests of one chunk are handed to addCredential, in order
DispatchAdds(batch, ps) ==
    /\ Queued = {}
    /\ \A i \in 1..Len(batch) : adm[batch[i]].pc = "idle"
    /\ admStarted + Len(batch) <= MaxAdmOps
    /\ admStarted' = admStarted + Len(batch)
    /\ adm' = [a \in AdmProcs |->
                  IF \E i \in 1..Len(batch) : batch[i] = a
                  THEN [IdleAdm EXCEPT
                           !.pc = "dispatched", !.op = "add", !.id = ps[a].id,
                           !.params = <<ps[a]>>,
                           !.queued = CHOOSE i \in 1..Len(batch) : batch[i] = a]
                  ELSE adm[a]]
    /\ UNCHANGED <<credentials, clock>>

\* addCredential up to `await storage.getCredential(params.id)`
AddHandlerFind(a) ==
    LET r == adm[a]
        params == r.params[1]
    IN  /\ AtHead(a)
        /\ r.pc = "dispatched"
        /\ adm' = IF ~SchemaAccepts(params)
                  THEN Advance(a, AdmFail(r, "ZodError"), FALSE)
                  ELSE Advance(a, [r EXCEPT !.pc = "checked",
                                            !.found = getCredential(params.id) # <<>>],
                               TRUE)
        /\ UNCHANGED <<credentials, admStarted, clock>>

\* addCredential from its `if (existing)` to the fetch of its verification
\* or to `await this.getCredential(credential.id)` of Storage.addCredential
AddHandlerContinue(a) ==
    LET r == adm[a]
        params == r.params[1]
        built == addCredentialConfig(params)
        credential == Credential(params.id, params.name, params.type,
                                 built.config, clock, clock)
        held == [r EXCEPT !.temp = <<credential>>]
    IN  /\ AtHead(a)
        /\ r.pc = "checked"
        /\ adm' = IF r.found
                  THEN Advance(a, AdmFail(r, "Credential already exists"), FALSE)
                  ELSE IF ~built.ok
                  THEN Advance(a, AdmFail(r, built.error), FALSE)
                  ELSE IF addCredentialVerifies(built.config, params.skipValidityCheck)
                  THEN Advance(a, testCredentialLogin(held), FALSE)
                  ELSE Advance(a, [held EXCEPT
                                      !.pc = "storing",
                                      !.found = getCredential(params.id) # <<>>],
                               TRUE)
        /\ UNCHANGED <<credentials, admStarted, clock>>

\* the login request of the verification completes: addCredential goes on
\* to `await this.getCredential(credential.id)` of Storage.addCredential
AddLoginResponse(a, ok) ==
    LET r == [adm[a] EXCEPT !.loginOk = IF ok THEN "ok" ELSE "failed"]
    IN  /\ Queued = {}
        /\ adm[a].pc = "testing"
        /\ adm[a].op = "add"
        /\ adm' = [adm EXCEPT ![a] =
               IF ~ok THEN AdmFail(r, "Credential verification failed")
               ELSE [r EXCEPT !.pc = "storing", !.queued = 1,
                              !.found = getCredential(r.id) # <<>>]]
        /\ UNCHANGED <<credentials, admStarted, clock>>

\* Storage.addCredential from its `if (existing)` on, and the return of
\* addCredential
AddStoragePush(a) ==
    LET r == adm[a]
    IN  /\ AtHead(a)
        /\ r.pc = "storing"
        /\ IF r.found
           THEN /\ adm' = Advance(a, AdmFail(r, "Credential with id already exists"),
                                  FALSE)
                /\ UNCHANGED <<credentials, clock>>
           ELSE /\ credentials' = StorageAddCredential(credentials, r.temp[1])
                /\ clock' = clock + 1
                /\ adm' = Advance(a, AdmOk(r), FALSE)
        /\ UNCHANGED admStarted

NextIds ==
    \/ \E batch \in Batches, ps \in [AdmProcs -> IdsAddParams] :
           /\ DispatchAdds(batch, ps)
           /\ UNCHANGED <<urlVars, pathVars, apiDocs, callVars>>
    \/ \E a \in AdmProcs :
           /\ AddHandlerFind(a)
           /\ UNCHANGED <<urlVars, pathVars, apiDocs, callVars>>
    \/ \E a \in AdmProcs :
           /\ AddHandlerContinue(a)
           /\ UNCHANGED <<urlVars, pathVars, apiDocs, callVars>>
    \/ \E a \in AdmProcs, ok \in BOOLEAN :
           /\ AddLoginResponse(a, ok)
           /\ UNCHANGED <<urlVars, pathVars, apiDocs, callVars>>
    \/ \E a \in AdmProcs :
           /\ AddStoragePush(a)
           /\ UNCHANGED <<urlVars, pathVars, apiDocs, callVars>>
    \/ \E a \in AdmProcs, params \in IdsUpdateParams :
           /\ Queued = {}
           /\ StartUpdateCredential(a, params)
           /\ UNCHANGED <<urlVars, pathVars, apiDocs, callVars>>
    \/ \E a \in AdmProcs, id \in CredIds :
           /\ Queued = {}
           /\ RemoveCredential(a, id)
           /\ UNCHANGED <<urlVars, pathVars, apiDocs, callVars>>
    \/ \E a \in AdmProcs :
           /\ AdmReturn(a)
           /\ UNCHANGED <<urlVars, pathVars, apiDocs, callVars>>

SpecIds == InitCred /\ [][NextIds]_vars

-----------------------------------------------------------------------------
(* SpecPath: both copies of getValueByPath on every bounded body and path. *)

\* longest path, in segments
MaxSegments == 2

PathSegments == {"data", "token", "0", "constructor"}

\* response bodies, as response.json() yields them
JsonValues ==
    <<Str("abc"), Num(1), Null,
      Arr(<<Num(1), Num(2)>>), Arr(<<Str("abc")>>),
      Obj([k \in {"token"} |-> Str("abc")]),
      Obj([k \in {"token"} |-> Num(1)]),
      Obj([k \in {"token"} |-> Str("")]),
      Obj([k \in {"data"} |-> Obj([j \in {"token"} |-> Str("abc")])]),
      Obj([k \in {"data"} |-> Null]),
      Obj([k \in {"data"} |-> Arr(<<Str("abc")>>)]),
      Obj([k \in {"data"} |-> Str("abc")]),
      Obj([k \in {"0"} |-> Str("abc")])>>

JsonPaths == {<<"">>} \cup (SeqsUpTo(PathSegments, MaxSegments) \ {<<>>})

InitPath ==
    /\ UrlQuiet
    /\ \E i \in 1..Len(JsonValues) : jsonValue = JsonValues[i]
    /\ jsonPath \in JsonPaths
    /\ lookup = <<>>
    /\ SchemaQuiet
    /\ apiDocs = <<>>
    /\ credentials = <<>>
    /\ CallQuiet
    /\ CredQuiet

\* both copies applied to the inputs
Lookup ==
    /\ lookup = <<>>
    /\ lookup' = <<[client |-> getValueByPath(jsonValue, jsonPath),
                    tool |-> getValueByPathRaw(jsonValue, jsonPath),
                    clientToken |-> IsToken(getValueByPath(jsonValue, jsonPath)),
                    toolToken |-> IsToken(getValueByPathRaw(jsonValue, jsonPath))]>>
    /\ UNCHANGED <<jsonValue, jsonPath, schemaVars>>

NextPath ==
    Lookup /\ UNCHANGED <<urlVars, apiDocs, credentials, callVars, credVars>>

SpecPath == InitPath /\ [][NextPath]_vars

-----------------------------------------------------------------------------
(* SpecResolve: resolveSchema of openapi-parser.ts, one step per call and  *)
(* per return, on schemas with circular, unresolved and deeply nested      *)
(* references.                                                             *)

\* the arrays nested inside the deepest input schema
MaxNesting == 50

MAX_SCHEMA_DEPTH == 50

\* a $ref string: '#/components/schemas/', '#/definitions/' or nothing,
\* followed by a name
RefString(prefix, name) == [prefix |-> prefix, name |-> name]

\* schema.$ref.replace('#/components/schemas/', '').replace('#/definitions/', '')
refPath(ref) == ref.name

\* an ApiSchema object: $ref (<<>> for undefined), and the objects that are its properties (the
\* values, in key order) and its items, each named by its index in nodes
Schema(ref, properties, items) ==
    [ref |-> ref, properties |-> properties, items |-> items]

Leaf == Schema(<<>>, <<>>, <<>>)
Ref(prefix, name) == Schema(<<RefString(prefix, name)>>, <<>>, <<>>)
ObjectOf(props) == Schema(<<>>, <<props>>, <<>>)
ArrayOf(item) == Schema(<<>>, <<>>, <<item>>)

\* apiDoc.schemas (named: name -> object), the schema objects of the
\* document (nodes) and the schema handed to resolveSchema (root)
SchemaInputs ==
    {[named |-> ("A" :> 2 @@ "B" :> 3),
      nodes |-> <<Ref("#/components/schemas/", "A"),
                  Ref("#/components/schemas/", "B"),
                  Ref("#/components/schemas/", "A")>>,
      root |-> 1],
     [named |-> ("A" :> 2),
      nodes |-> <<Ref("#/components/schemas/", "A"),
                  ObjectOf(<<3, 4, 6, 7>>),
                  Ref("#/components/schemas/", "A"),
                  ArrayOf(5),
                  Ref("#/definitions/", "A"),
                  Ref("#/components/schemas/", "X"),
                  Leaf>>,
      root |-> 1],
     [named |-> ("A" :> 1),
      nodes |-> [i \in 1..(MaxNesting + 1) |->
                    IF i <= MaxNesting THEN ArrayOf(i + 1)
                    ELSE Ref("#/components/schemas/", "A")],
      root |-> MaxNesting + 1],
     [named |-> ("A" :> 2),
      nodes |-> <<Schema(<<RefString("", "X")>>, <<<<3, 4>>>>, <<>>),
                  ObjectOf(<<>>),
                  Ref("", "A"),
                  ArrayOf(5),
                  Leaf>>,
      root |-> 1]}

\* a call of resolveSchema with its arguments
NewCall(schema, visitedRefs, depth) ==
    [schema |-> schema, visitedRefs |-> visitedRefs, depth |-> depth,
     pc |-> "call", todo |-> <<>>]

\* mutation of OnPath: no reference counts as visited
OnPathNever(visitedRefs, ref) == FALSE

\* visitedRefs.has(schema.$ref)
OnPath(visitedRefs, ref) == ref \in visitedRefs

\* apiDoc.schemas?.[refPath], <<>> for undefined
Resolved(ref) ==
    IF refPath(ref) \in DOMAIN schemas.named THEN <<schemas.named[refPath(ref)]>>
    ELSE <<>>

\* the innermost call returns `{...schema, [mark]: true}`, or, with the
\* mark "none", the schema with its resolved parts
SchemaReturn(f, mark) ==
    /\ stack' = SubSeq(stack, 1, Len(stack) - 1)
    /\ returned' = <<[schema |-> f.schema, mark |-> mark, depth |-> f.depth]>>

\* the innermost call, now at pc, calls resolveSchema for child
SchemaRecurse(f, pc, todo, child, visitedRefs) ==
    /\ stack' = Append([stack EXCEPT ![Len(stack)] = [f EXCEPT !.pc = pc, !.todo = todo]],
                       NewCall(child, visitedRefs, f.depth + 1))
    /\ UNCHANGED returned

\* resolveSchema from its entry to its first recursive call or its return
ResolveCall ==
    /\ stack # <<>>
    /\ stack[Len(stack)].pc = "call"
    /\ LET f == stack[Len(stack)]
           schema == schemas.nodes[f.schema]
       IN  IF f.depth >= MAX_SCHEMA_DEPTH
           THEN SchemaReturn(f, "_maxDepthReached")
           ELSE IF schema.ref # <<>> /\ OnPath(f.visitedRefs, schema.ref[1])
           THEN SchemaReturn(f, "_circular")
           ELSE IF schema.ref # <<>> /\ Resolved(schema.ref[1]) # <<>>
           THEN SchemaRecurse(f, "ref", <<>>, Resolved(schema.ref[1])[1],
                              f.visitedRefs \cup {schema.ref[1]})
           ELSE IF schema.properties # <<>>
           THEN IF schema.properties[1] = <<>>
                THEN SchemaReturn(f, "none")
                ELSE SchemaRecurse(f, "props", Tail(schema.properties[1]),
                                   Head(schema.properties[1]), f.visitedRefs)
           ELSE IF schema.items # <<>>
           THEN SchemaRecurse(f, "items", <<>>, schema.items[1], f.visitedRefs)
           ELSE SchemaReturn(f, "none")
    /\ UNCHANGED schemas

\* a recursive call has returned to the innermost call: it returns what
\* the referenced schema resolved to, goes on with the next property, or
\* returns the schema with its resolved properties or items
ResolveResume ==
    /\ stack # <<>>
    /\ stack[Len(stack)].pc # "call"
    /\ LET f == stack[Len(stack)]
       IN  IF f.pc = "ref"
           THEN /\ stack' = SubSeq(stack, 1, Len(stack) - 1)
                /\ UNCHANGED returned
           ELSE IF f.pc = "props" /\ f.todo # <<>>
           THEN SchemaRecurse(f, "props", Tail(f.todo), Head(f.todo), f.visitedRefs)
           ELSE SchemaReturn(f, "none")
    /\ UNCHANGED schemas

\* getApiEndpointInfo calls resolveSchema(apiDoc, schema)
InitResolve ==
    /\ UrlQuiet
    /\ jsonValue = Undefined /\ jsonPath = <<>> /\ lookup = <<>>
    /\ \E input \in SchemaInputs :
           /\ schemas = [named |-> input.named, nodes |-> input.nodes]
           /\ stack = <<NewCall(input.root, {}, 0)>>
    /\ returned = <<>>
    /\ apiDocs = <<>>
    /\ credentials = <<>>
    /\ CallQuiet
    /\ CredQuiet

ResolveStep ==
    /\ ResolveCall \/ ResolveResume
    /\ UNCHANGED <<urlVars, jsonValue, jsonPath, lookup, apiDocs, credentials,
                   callVars, credVars>>

NextResolve == ResolveStep

\* the interpreter runs the call to its end
SpecResolve == InitResolve /\ [][NextResolve]_vars /\ WF_vars(ResolveStep)

-----------------------------------------------------------------------------
(* SpecDocs: API docs are added, removed and refreshed while a caller      *)
(* makes raw calls; the store starts with one doc that has a specUrl.      *)

OtherBase == Url("https", "api", <<"/", "b">>)

\* what extractApiDoc returns: `addedAt: new Date().toISOString()`, and no
\* apiHashUrl or lastHash property
ApiDoc(id, baseUrl, endpoints, specUrl) ==
    [id |-> id, baseUrl |-> baseUrl, endpoints |-> endpoints, specUrl |-> specUrl,
     addedAt |-> clock]

\* doc[f], undefined when the object has no such property
Field(doc, f) == IF f \in DOMAIN doc THEN doc[f] ELSE Absent

\* `doc[f] = v` on an object
Extend(doc, f, v) == [g \in DOMAIN doc \cup {f} |-> IF g = f THEN v ELSE doc[g]]

\* the parameters of add_api_doc with specContent: the base URL the spec
\* names (none: extractBaseUrl returns '') and the baseUrl override
AddDocParams ==
    [id : {"d1"}, specBase : {<<>>, <<ApiBase>>}, baseUrl : {<<>>, <<OtherBase>>}]

\* what parseOpenAPIFromUrl yields for a refresh: a rejection, or a spec
RefreshOutcomes ==
    {[kind |-> "reject", endpoints |-> {}, base |-> OtherBase],
     [kind |-> "spec", endpoints |-> {<<"b">>}, base |-> OtherBase]}

\* Storage.addApiDoc after its existence check
StorageAddApiDoc(list, apiDoc) == Append(list, apiDoc)

\* Storage.removeApiDoc after its findIndex: splice(index, 1)
StorageRemoveApiDoc(list, id) ==
    LET index == FindIndex(list, id)
    IN  SubSeq(list, 1, index - 1) \o SubSeq(list, index + 1, Len(list))

\* Storage.updateApiDoc after its findIndex: {...old, ...safeUpdates, id}
StorageUpdateApiDoc(list, id, updates) ==
    LET old == list[FindIndex(list, id)]
        merged == [f \in DOMAIN old \cup DOMAIN updates |->
                      IF f \in DOMAIN updates THEN updates[f] ELSE old[f]]
    IN  [list EXCEPT ![FindIndex(list, id)] = [merged EXCEPT !.id = id]]

\* extractApiDoc of a refresh, with `updated.baseUrl = existing.baseUrl` and
\* `updated.addedAt = existing.addedAt`
refreshedDoc(existing, spec) ==
    [ApiDoc(existing.id, existing.baseUrl, spec.endpoints, existing.specUrl)
        EXCEPT !.addedAt = existing.addedAt]

\* addApiDoc with specContent: no network request, one step
AddApiDoc(a, params) ==
    LET r == [adm[a] EXCEPT !.op = "addDoc", !.id = params.id]
        baseUrl == IF params.baseUrl # <<>> THEN params.baseUrl ELSE params.specBase
        extracted == ApiDoc(params.id, baseUrl[1], EndpointPaths, Absent)
        apiDoc == IF Truthy(Field(params, "apiHashUrl"))
                  THEN Extend(extracted, "apiHashUrl", params.apiHashUrl)
                  ELSE extracted
    IN  /\ adm[a].pc = "idle"
        /\ admStarted < MaxAdmOps
        /\ admStarted' = admStarted + 1
        /\ IF getApiDoc(params.id) # <<>>
           THEN /\ adm' = [adm EXCEPT ![a] = AdmFail(r, "API doc already exists")]
                /\ UNCHANGED apiDocs
           ELSE IF baseUrl = <<>>
           THEN /\ adm' = [adm EXCEPT ![a] =
                       AdmFail(r, "Could not determine baseUrl. Please provide it explicitly.")]
                /\ UNCHANGED apiDocs
           ELSE /\ apiDocs' = StorageAddApiDoc(apiDocs, apiDoc)
                /\ adm' = [adm EXCEPT ![a] = AdmOk(r)]
        /\ UNCHANGED clock

\* removeApiDoc: no network request, one step
RemoveApiDoc(a, id) ==
    LET r == [adm[a] EXCEPT !.op = "removeDoc", !.id = id]
    IN  /\ adm[a].pc = "idle"
        /\ admStarted < MaxAdmOps
        /\ admStarted' = admStarted + 1
        /\ IF FindIndex(apiDocs, id) = 0
           THEN /\ adm' = [adm EXCEPT ![a] = AdmFail(r, "API doc not found")]
                /\ UNCHANGED apiDocs
           ELSE /\ apiDocs' = StorageRemoveApiDoc(apiDocs, id)
                /\ adm' = [adm EXCEPT ![a] = AdmOk(r)]
        /\ UNCHANGED clock

\* refreshApiDoc, from its start to the fetch of parseOpenAPIFromUrl
StartRefreshApiDoc(a, id) ==
    LET r == [adm[a] EXCEPT !.op = "refreshDoc", !.id = id]
        existing == getApiDoc(id)
    IN  /\ adm[a].pc = "idle"
        /\ admStarted < MaxAdmOps
        /\ admStarted' = admStarted + 1
        /\ adm' = [adm EXCEPT ![a] =
               IF existing = <<>> THEN AdmFail(r, "API doc not found")
               ELSE IF ~Truthy(existing[1].specUrl)
               THEN AdmFail(r, "API doc has no specUrl to refresh from")
               ELSE [r EXCEPT !.pc = "fetching", !.temp = existing]]
        /\ UNCHANGED <<apiDocs, clock>>

\* mutation of RefreshResponse: the write is an upsert, a doc that is no
\* longer in the store is stored again
RefreshResponseUpsert(a, o) ==
    LET r == adm[a]
    IN  /\ r.pc = "fetching"
        /\ IF o.kind = "reject"
           THEN /\ adm' = [adm EXCEPT ![a] = AdmFail(r, "Failed to fetch OpenAPI spec")]
                /\ UNCHANGED apiDocs
           ELSE IF FindIndex(apiDocs, r.id) = 0
           THEN /\ apiDocs' = StorageAddApiDoc(apiDocs, refreshedDoc(r.temp[1], o))
                /\ adm' = [adm EXCEPT ![a] = AdmOk(r)]
           ELSE /\ apiDocs' = StorageUpdateApiDoc(apiDocs, r.id,
                                                  refreshedDoc(r.temp[1], o))
                /\ adm' = [adm EXCEPT ![a] = AdmOk(r)]
        /\ UNCHANGED <<admStarted, clock>>

\* the fetch of the spec completes: the rest of refreshApiDoc
RefreshResponse(a, o) ==
    LET r == adm[a]
    IN  /\ r.pc = "fetching"
        /\ IF o.kind = "reject"
           THEN /\ adm' = [adm EXCEPT ![a] = AdmFail(r, "Failed to fetch OpenAPI spec")]
                /\ UNCHANGED apiDocs
           ELSE IF FindIndex(apiDocs, r.id) = 0
           THEN /\ adm' = [adm EXCEPT ![a] = AdmFail(r, "API doc with id not found")]
                /\ UNCHANGED apiDocs
           ELSE /\ apiDocs' = StorageUpdateApiDoc(apiDocs, r.id,
                                                  refreshedDoc(r.temp[1], o))
                /\ adm' = [adm EXCEPT ![a] = AdmOk(r)]
        /\ UNCHANGED <<admStarted, clock>>

\* the doc-tool caller has its result
DocReturn(a) ==
    /\ adm[a].pc = "done"
    /\ adm' = [adm EXCEPT ![a] = IdleAdm]
    /\ UNCHANGED <<apiDocs, admStarted, clock>>

InitDocs ==
    /\ CredQuiet
    /\ UrlQuiet
    /\ PathQuiet
    /\ apiDocs = <<ApiDoc("d1", ApiBase, EndpointPaths, "S1")>>
    /\ credentials = <<>>
    /\ CallQuiet

NextDocs ==
    \/ \E a \in AdmProcs, params \in AddDocParams :
           /\ AddApiDoc(a, params)
           /\ UNCHANGED <<urlVars, pathVars, credentials, callVars>>
    \/ \E a \in AdmProcs :
           /\ RemoveApiDoc(a, "d1")
           /\ UNCHANGED <<urlVars, pathVars, credentials, callVars>>
    \/ \E a \in AdmProcs :
           /\ StartRefreshApiDoc(a, "d1")
           /\ UNCHANGED <<urlVars, pathVars, credentials, callVars>>
    \/ \E a \in AdmProcs, o \in RefreshOutcomes :
           /\ RefreshResponse(a, o)
           /\ UNCHANGED <<urlVars, pathVars, credentials, callVars>>
    \/ \E a \in AdmProcs :
           /\ DocReturn(a)
           /\ UNCHANGED <<urlVars, pathVars, credentials, callVars>>
    \/ \E url \in RawUrls :
           /\ StartCallRawApi("p1", url, Absent)
           /\ UNCHANGED <<urlVars, pathVars, apiDocs, credentials, credVars>>
    \/ \E o \in NetworkOutcomes :
           /\ TargetResponse("p1", o)
           /\ UNCHANGED <<urlVars, pathVars, apiDocs, credentials, credVars>>
    \/ /\ Return("p1")
       /\ UNCHANGED <<urlVars, pathVars, apiDocs, credentials, credVars>>

SpecDocs == InitDocs /\ [][NextDocs]_vars

-----------------------------------------------------------------------------
(* SpecCache: the smart-cache check of smart-cache.ts runs beside add,     *)
(* remove and manual refresh on a doc that was added with a specUrl and    *)
(* an apiHashUrl and has not been checked yet.                             *)

\* the parameters of add_api_doc with specContent and an optional apiHashUrl
CacheAddParams ==
    [id : {"d1"}, specBase : {<<ApiBase>>}, baseUrl : {<<>>, <<OtherBase>>},
     apiHashUrl : {Absent, "H2"}]

\* what the fetch of apiHashUrl yields: no response or a response that is
\* not ok, or the text of the response
HashOutcomes ==
    {[ok |-> FALSE, hash |-> ""], [ok |-> TRUE, hash |-> "h1"],
     [ok |-> TRUE, hash |-> "h2"]}

\* mutation of HashDiffers: every check takes the remote hash for a new one
HashAlwaysDiffers(doc, remoteHash) == TRUE

\* `doc.lastHash === remoteHash` is false
HashDiffers(doc, remoteHash) == Field(doc, "lastHash") # remoteHash

\* extractApiDoc of a smart-cache refresh with the settings it persists
checkedDoc(doc, spec, remoteHash) ==
    LET updated == ApiDoc(doc.id, doc.baseUrl, spec.endpoints, doc.specUrl)
    IN  Extend(Extend([updated EXCEPT !.addedAt = doc.addedAt],
                      "apiHashUrl", Field(doc, "apiHashUrl")),
               "lastHash", remoteHash)

\* checkAndRefreshApiDoc, from its start to the fetch of doc.apiHashUrl;
\* it returns void, here a success result
StartCheck(a, id) ==
    LET r == [adm[a] EXCEPT !.op = "checkDoc", !.id = id]
        doc == getApiDoc(id)
    IN  /\ adm[a].pc = "idle"
        /\ admStarted < MaxAdmOps
        /\ admStarted' = admStarted + 1
        /\ adm' = [adm EXCEPT ![a] =
               IF \/ doc = <<>>
                  \/ ~Truthy(Field(doc[1], "apiHashUrl"))
                  \/ ~Truthy(Field(doc[1], "specUrl"))
               THEN AdmOk(r)
               ELSE [r EXCEPT !.pc = "hashing", !.temp = doc]]
        /\ UNCHANGED <<apiDocs, clock>>

\* the fetch of the hash completes; params keeps remoteHash
HashResponse(a, o) ==
    LET r == adm[a]
    IN  /\ r.pc = "hashing"
        /\ adm' = [adm EXCEPT ![a] =
               IF ~o.ok THEN AdmOk(r)
               ELSE IF ~HashDiffers(r.temp[1], o.hash)
               THEN AdmOk([r EXCEPT !.params = <<o.hash>>])
               ELSE [r EXCEPT !.pc = "refetching", !.params = <<o.hash>>]]
        /\ UNCHANGED <<apiDocs, admStarted, clock>>

\* the fetch of the spec completes: the rest of checkAndRefreshApiDoc, whose
\* catch block swallows a rejection and the throw of updateApiDoc
CheckSpecResponse(a, o) ==
    LET r == adm[a]
    IN  /\ r.pc = "refetching"
        /\ adm' = [adm EXCEPT ![a] = AdmOk(r)]
        /\ IF o.kind = "reject" \/ FindIndex(apiDocs, r.id) = 0
           THEN UNCHANGED apiDocs
           ELSE apiDocs' = StorageUpdateApiDoc(apiDocs, r.id,
                               checkedDoc(r.temp[1], o, r.params[1]))
        /\ UNCHANGED <<admStarted, clock>>

InitCache ==
    /\ CredQuiet
    /\ UrlQuiet
    /\ PathQuiet
    /\ apiDocs = <<Extend([ApiDoc("d1", ApiBase, EndpointPaths, "S1")
                              EXCEPT !.addedAt = 0], "apiHashUrl", "H1")>>
    /\ credentials = <<>>
    /\ CallQuiet

NextCache ==
    \/ \E a \in AdmProcs, params \in CacheAddParams :
           /\ AddApiDoc(a, params)
           /\ UNCHANGED <<urlVars, pathVars, credentials, callVars>>
    \/ \E a \in AdmProcs :
           /\ RemoveApiDoc(a, "d1")
           /\ UNCHANGED <<urlVars, pathVars, credentials, callVars>>
    \/ \E a \in AdmProcs :
           /\ StartRefreshApiDoc(a, "d1")
           /\ UNCHANGED <<urlVars, pathVars, credentials, callVars>>
    \/ \E a \in AdmProcs, o \in RefreshOutcomes :
           /\ RefreshResponse(a, o)
           /\ UNCHANGED <<urlVars, pathVars, credentials, callVars>>
    \/ \E a \in AdmProcs :
           /\ StartCheck(a, "d1")
           /\ UNCHANGED <<urlVars, pathVars, credentials, callVars>>
    \/ \E a \in AdmProcs, o \in HashOutcomes :
           /\ HashResponse(a, o)
           /\ UNCHANGED <<urlVars, pathVars, credentials, callVars>>
    \/ \E a \in AdmProcs, o \in RefreshOutcomes :
           /\ CheckSpecResponse(a, o)
           /\ UNCHANGED <<urlVars, pathVars, credentials, callVars>>
    \/ \E a \in AdmProcs :
           /\ DocReturn(a)
           /\ UNCHANGED <<urlVars, pathVars, credentials, callVars>>

SpecCache == InitCache /\ [][NextCache]_vars

-----------------------------------------------------------------------------
(* SpecSupersede: one caller uses the dynamic credential while its login   *)
(* configuration is changed by update_credential, or the credential is     *)
(* removed and added again; every update names a loginUrl other than the   *)
(* stored one.                                                             *)

SupersedeUpdateParams ==
    [id : CredIds, name : {Absent}, apiKey : {Absent}, token : {Absent},
     loginUrl : {"L1", "L2"}, loginBody : {Absent}, loginMethod : {Absent},
     skipValidityCheck : BOOLEAN, customHeaders : {<<>>}]

SupersedeAddParams ==
    [id : CredIds, name : {"n1"}, type : {"bearer"}, apiKey : {Absent},
     token : {Absent}, loginUrl : {"L1"}, loginBody : {"B1"},
     loginMethod : {Absent}, username : {Absent}, password : {Absent},
     headers : {<<>>}, skipValidityCheck : {TRUE}, customHeaders : {<<>>}]

\* the update names a loginUrl that differs from the stored one
ChangesLoginConfig(params) ==
    /\ getCredential(params.id) # <<>>
    /\ getCredential(params.id)[1].config.loginUrl # params.loginUrl

InitSupersede ==
    /\ CredQuiet
    /\ UrlQuiet
    /\ PathQuiet
    /\ apiDocs \in LoadedDocs
    /\ credentials \in LoadedCredentials
    /\ CallQuiet

NextSupersede ==
    \/ /\ StartCallApi("p1", "d1", <<"b">>, FALSE, "c1")
       /\ UNCHANGED <<urlVars, pathVars, apiDocs, credentials, credVars>>
    \/ Respond("p1")
    \/ /\ Return("p1")
       /\ UNCHANGED <<urlVars, pathVars, apiDocs, credentials, credVars>>
    \/ \E params \in SupersedeUpdateParams :
           /\ ChangesLoginConfig(params)
           /\ StartUpdateCredential("a1", params)
           /\ UNCHANGED <<urlVars, pathVars, apiDocs, callVars>>
    \/ \E ok \in BOOLEAN :
           /\ TestLoginResponse("a1", ok)
           /\ UNCHANGED <<urlVars, pathVars, apiDocs, callVars>>
    \/ /\ RemoveCredential("a1", "c1")
       /\ UNCHANGED <<urlVars, pathVars, apiDocs, callVars>>
    \/ \E params \in SupersedeAddParams :
           /\ StartAddCredential("a1", params)
           /\ UNCHANGED <<urlVars, pathVars, apiDocs, callVars>>
    \/ /\ AdmReturn("a1")
       /\ UNCHANGED <<urlVars, pathVars, apiDocs, callVars>>

SpecSupersede == InitSupersede /\ [][NextSupersede]_vars

-----------------------------------------------------------------------------
(* SpecIsolated: the store holds two dynamic credentials, and two callers  *)
(* use them at the same time.                                              *)

ProbedConfig ==
    [EmptyConfig EXCEPT !.loginUrl = "L1", !.loginMethod = "POST",
                        !.loginBody = "B1", !.tokenPath = "token",
                        !.invalidStatusCodes = <<{401}>>,
                        !.validityCheckUrl = "V1"]

InitIsolated ==
    /\ CredQuiet
    /\ UrlQuiet
    /\ PathQuiet
    /\ apiDocs \in LoadedDocs
    /\ credentials = <<Credential("c1", "dynamic", "autoToken", ProbedConfig, 0, 0),
                       Credential("c3", "other", "autoToken", ProbedConfig, 0, 0)>>
    /\ CallQuiet

NextIsolated ==
    \/ \E credId \in {"c1", "c3"} :
           /\ StartCallApi("p1", "d1", <<"b">>, FALSE, credId)
           /\ UNCHANGED <<urlVars, pathVars, apiDocs, credentials, credVars>>
    \/ /\ StartCallApi("p2", "d1", <<"b">>, FALSE, "c3")
       /\ UNCHANGED <<urlVars, pathVars, apiDocs, credentials, credVars>>
    \/ \E p \in Procs : Respond(p)
    \/ \E p \in Procs :
           /\ Return(p)
           /\ UNCHANGED <<urlVars, pathVars, apiDocs, credentials, credVars>>

SpecIsolated == InitIsolated /\ [][NextIsolated]_vars

-----------------------------------------------------------------------------
(* SpecStatic: one caller against a store that holds the dynamic           *)
(* credential and one static credential of any type; the cache may hold    *)
(* the dynamic credential's token from an earlier call.                    *)

HeaderNames == <<"X-H1", "X-H2", "Accept", "X-H4", "X-H5", "X-H6">>

\* one more header than a customHeaders credential may carry
HeaderPool ==
    [i \in 1..Len(HeaderNames) |->
        [name |-> HeaderNames[i], value |-> <<"v", HeaderNames[i]>>]]

StaticConfigs ==
    {<<"apiKey", [EmptyConfig EXCEPT !.apiKey = "k1", !.apiKeyHeader = "X-API-Key"]>>,
     <<"bearer", [EmptyConfig EXCEPT !.token = "tok"]>>,
     <<"bearer", [EmptyConfig EXCEPT !.token = "tok", !.invalidStatusCodes = <<{401}>>]>>,
     <<"basic", [EmptyConfig EXCEPT !.username = "u1", !.password = "pw"]>>,
     <<"oauth2", [EmptyConfig EXCEPT !.accessToken = "at"]>>,
     <<"custom", [EmptyConfig EXCEPT !.headers = <<"X-Custom" :> <<"cv">>>>]>>}
        \cup {<<"customHeaders",
                [EmptyConfig EXCEPT !.customHeaders = <<SubSeq(HeaderPool, 1, n)>>]>> :
                 n \in {1, MaxCustomHeaders}}

DynamicCredential ==
    Credential("c1", "dynamic", "autoToken",
               [EmptyConfig EXCEPT !.loginUrl = "L1", !.loginMethod = "POST",
                                   !.loginBody = "B1", !.tokenPath = "token",
                                   !.invalidStatusCodes = <<{401}>>], 0, 0)

StaticCredentials ==
    {<<DynamicCredential, Credential("s1", "static", sc[1], sc[2], 0, 0)>> :
        sc \in StaticConfigs}

StaticCallCredIds == {Absent, "s1"}

InitStatic ==
    /\ CredQuiet
    /\ UrlQuiet
    /\ PathQuiet
    /\ apiDocs \in LoadedDocs
    /\ credentials \in StaticCredentials
    /\ tokenCache \in {<<>>, setCachedToken(<<>>, "c1", 1)}
    /\ calls = [p \in Procs |-> IdleCall]
    /\ started = 0

NextStatic ==
    \/ \E docId \in DocIds, path \in CallPaths,
          withParams \in BOOLEAN, credId \in StaticCallCredIds :
           /\ StartCallApi("p1", docId, path, withParams, credId)
           /\ UNCHANGED <<urlVars, pathVars, apiDocs, credentials, credVars>>
    \/ \E url \in RawUrls, credId \in StaticCallCredIds :
           /\ StartCallRawApi("p1", url, credId)
           /\ UNCHANGED <<urlVars, pathVars, apiDocs, credentials, credVars>>
    \/ \E o \in NetworkOutcomes :
           /\ TargetResponse("p1", o)
           /\ UNCHANGED <<urlVars, pathVars, apiDocs, credentials, credVars>>
    \/ /\ Return("p1")
       /\ UNCHANGED <<urlVars, pathVars, apiDocs, credentials, credVars>>

SpecStatic == InitStatic /\ [][NextStatic]_vars

-----------------------------------------------------------------------------
(* SpecIncomplete: the caller of SpecStatic against a store whose static   *)
(* credential, as read from data.json, lacks a field its type needs.       *)

IncompleteConfigs ==
    {<<"apiKey", [EmptyConfig EXCEPT !.apiKeyHeader = "X-API-Key"]>>,
     <<"apiKey", [EmptyConfig EXCEPT !.apiKey = "k1"]>>,
     <<"apiKey", [EmptyConfig EXCEPT !.apiKey = "", !.apiKeyHeader = "X-API-Key"]>>,
     <<"bearer", EmptyConfig>>,
     <<"bearer", [EmptyConfig EXCEPT !.token = ""]>>,
     <<"basic", [EmptyConfig EXCEPT !.password = "pw"]>>,
     <<"basic", [EmptyConfig EXCEPT !.username = "u1"]>>,
     <<"oauth2", EmptyConfig>>,
     <<"custom", EmptyConfig>>,
     <<"customHeaders", EmptyConfig>>}

IncompleteCredentials ==
    {<<DynamicCredential, Credential("s1", "static", sc[1], sc[2], 0, 0)>> :
        sc \in IncompleteConfigs}

InitIncomplete ==
    /\ CredQuiet
    /\ UrlQuiet
    /\ PathQuiet
    /\ apiDocs \in LoadedDocs
    /\ credentials \in IncompleteCredentials
    /\ tokenCache \in {<<>>, setCachedToken(<<>>, "c1", 1)}
    /\ calls = [p \in Procs |-> IdleCall]
    /\ started = 0

SpecIncomplete == InitIncomplete /\ [][NextStatic]_vars

-----------------------------------------------------------------------------
(* SpecHeaders: a customHeaders credential is admitted and updated with    *)
(* none to six headers, and one caller sends requests with it.             *)

OfferedCustomHeaders ==
    {<<>>} \cup {<<SubSeq(HeaderPool, 1, n)>> : n \in 0..Len(HeaderPool)}

CustomHeadersAddParams ==
    [id : CredIds, name : {"n1"}, type : {"customHeaders"},
     apiKey : {Absent}, token : {Absent}, loginUrl : {Absent},
     loginBody : {Absent}, loginMethod : {Absent}, username : {Absent},
     password : {Absent}, headers : {<<>>}, skipValidityCheck : {FALSE},
     customHeaders : OfferedCustomHeaders]

CustomHeadersUpdateParams ==
    [id : CredIds, name : {Absent}, apiKey : {Absent}, token : {Absent},
     loginUrl : {Absent}, loginBody : {Absent}, loginMethod : {Absent},
     skipValidityCheck : {FALSE}, customHeaders : OfferedCustomHeaders]

InitHeaders ==
    /\ UrlQuiet
    /\ PathQuiet
    /\ apiDocs \in LoadedDocs
    /\ credentials = <<StaticBearer>>
    /\ CallQuiet
    /\ CredQuiet

NextHeaders ==
    \/ \E params \in CustomHeadersAddParams :
           /\ StartAddCredential("a1", params)
           /\ UNCHANGED <<urlVars, pathVars, apiDocs, callVars>>
    \/ \E params \in CustomHeadersUpdateParams :
           /\ StartUpdateCredential("a1", params)
           /\ UNCHANGED <<urlVars, pathVars, apiDocs, callVars>>
    \/ /\ AdmReturn("a1")
       /\ UNCHANGED <<urlVars, pathVars, apiDocs, callVars>>
    \/ \E path \in CallPaths, withParams \in BOOLEAN, credId \in CredIds :
           /\ StartCallApi("p1", "d1", path, withParams, credId)
           /\ UNCHANGED <<urlVars, pathVars, apiDocs, credentials, credVars>>
    \/ \E url \in RawUrls, credId \in CredIds :
           /\ StartCallRawApi("p1", url, credId)
           /\ UNCHANGED <<urlVars, pathVars, apiDocs, credentials, credVars>>
    \/ \E o \in NetworkOutcomes :
           /\ TargetResponse("p1", o)
           /\ UNCHANGED <<urlVars, pathVars, apiDocs, credentials, credVars>>
    \/ /\ Return("p1")
       /\ UNCHANGED <<urlVars, pathVars, apiDocs, credentials, credVars>>

SpecHeaders == InitHeaders /\ [][NextHeaders]_vars

-----------------------------------------------------------------------------
(* Properties of the call layer (Spec) and of the whitelist (SpecUrl).     *)

\* C1: an invocation with a dynamic credential sends at most two target
\* requests; the second is sent only when the first response has arrived
\* with a status in invalidStatusCodes; and whatever answers the second
\* request ends the invocation, a response being returned as the result
\* even when its status is invalid again.
RetryBound ==
    [][\A p \in Procs :
          LET c == calls[p]
              d == calls'[p]
          IN  (d.cred # <<>> /\ d.cred[1].type = "autoToken") =>
                /\ d.nTarget <= 2
                /\ (d.nTarget = 2) =>
                      /\ d.cred[1].config.invalidStatusCodes # <<>>
                      /\ d.firstStatus \in d.cred[1].config.invalidStatusCodes[1]
                /\ (c.pc = "target" /\ c.attempt = 2 /\ d # c) =>
                      /\ d.pc = "done"
                      /\ d.nTarget = 2
                      /\ d.result[1].success =>
                             d.result[1].status = d.lastStatus]_vars

\* C1 witness: an invocation returned its second response, whose status is
\* again in invalidStatusCodes.
RetryBoundWitness ==
    \E p \in Procs :
        /\ calls[p].pc = "done"
        /\ calls[p].nTarget = 2
        /\ calls[p].result[1].success
        /\ calls[p].result[1].status \in calls[p].cred[1].config.invalidStatusCodes[1]

\* C2: callRawApi on a URL the whitelist check rejects returns the failure
\* "URL is not whitelisted: <url>" whatever credential id it was given, has
\* sent no target, login or probe request, and leaves the token cache as it
\* was.
NotWhitelistedRejected ==
    [][\A p \in Procs :
          LET c == calls[p]
              d == calls'[p]
          IN  (/\ c.pc = "idle"
               /\ d.kind = "raw"
               /\ ~validateUrlAgainstWhitelist(d.url, getWhitelistedBaseUrls).valid) =>
                /\ d.pc = "done"
                /\ d.result = <<[success |-> FALSE, status |-> 0,
                                 error |-> <<"URL is not whitelisted: ", d.url>>]>>
                /\ d.nTarget = 0 /\ d.nLogin = 0 /\ d.nProbe = 0
                /\ tokenCache' = tokenCache]_vars

\* C2 witness: a raw call was rejected by the whitelist while the cache
\* held a token.
NotWhitelistedWitness ==
    \E p \in Procs :
        /\ calls[p].pc = "done"
        /\ calls[p].kind = "raw"
        /\ calls[p].result[1].error = <<"URL is not whitelisted: ", calls[p].url>>
        /\ DOMAIN tokenCache # {}

\* C3 (as stated): for a one-entry whitelist W and a URL U that both parse,
\* the predicate is true iff the origins are equal and U's path starts with
\* W's path with its trailing slashes stripped.
WhitelistRuleNormalized ==
    (/\ wlResult # <<>>
     /\ Len(wlList) = 1
     /\ UrlParses(wlUrl)
     /\ UrlParses(wlList[1])) =>
        (wlResult[1].valid <=>
            /\ OriginOf(ParseUrl(wlUrl)) = OriginOf(ParseUrl(wlList[1]))
            /\ StartsWith(ParseUrl(wlUrl).pathname, normalizeUrl(wlList[1]).path))

\* the case C4 is about: a finished callRawApi with a dynamic credential
\* whose invalidStatusCodes is [401], answered 401 and then 200
RetriedTo200(c) ==
    /\ c.pc = "done"
    /\ c.kind = "raw"
    /\ c.cred # <<>>
    /\ c.cred[1].type = "autoToken"
    /\ c.cred[1].config.invalidStatusCodes = <<{401}>>
    /\ c.nTarget = 2
    /\ c.firstStatus = 401
    /\ c.lastStatus = 200

\* C4 (amended): such a call returns success with status 200, and made one
\* login when its first attempt used a cached token, two when no token was
\* cached (one to obtain the first token, one to re-authenticate).
ReloginCount ==
    \A p \in Procs :
        RetriedTo200(calls[p]) =>
            /\ calls[p].result[1] = [success |-> TRUE, status |-> 200, error |-> <<>>]
            /\ calls[p].nLogin = IF calls[p].fromCache THEN 1 ELSE 2

\* C4 witness: the stale-token case, with its one login.
ReloginCountWitness ==
    \E p \in Procs :
        /\ RetriedTo200(calls[p])
        /\ calls[p].fromCache
        /\ calls[p].nLogin = 1

\* C4 (as stated): such a call returns success with status 200 and made
\* exactly one login, whether or not a token was cached beforehand.
ExactlyOneLogin ==
    \A p \in Procs :
        RetriedTo200(calls[p]) =>
            /\ calls[p].result[1] = [success |-> TRUE, status |-> 200, error |-> <<>>]
            /\ calls[p].nLogin = 1

\* C5 (as stated): when the only invocation so far has logged in and
\* returned a response, the cache holds the token of that login.
LoginTokenCached ==
    \A p \in Procs :
        (/\ started = 1
         /\ calls[p].pc = "done"
         /\ calls[p].result[1].success
         /\ calls[p].nLogin >= 1) =>
            getCachedToken(tokenCache, calls[p].cred[1].id) = calls[p].token

\* C6 (as stated): when an invocation returns a response whose status is in
\* invalidStatusCodes, the cache does not hold the token that request was
\* sent with.
FailedTokenEvicted ==
    \A p \in Procs :
        (/\ calls[p].pc = "done"
         /\ calls[p].result[1].success
         /\ calls[p].token # 0
         /\ calls[p].cred[1].config.invalidStatusCodes # <<>>
         /\ calls[p].result[1].status
                \in calls[p].cred[1].config.invalidStatusCodes[1]) =>
            getCachedToken(tokenCache, calls[p].cred[1].id) # calls[p].token

\* C7: when the validity probe of a cached token is answered 200,
\* getAutoToken returns that token having sent the probe and no login, and
\* the cache is as it was; this holds every time it happens.
ProbeValidKeepsToken ==
    [][\A p \in Procs :
          LET c == calls[p]
              d == calls'[p]
          IN  (c.pc = "probe" /\ d # c /\ d.probeStatus = 200) =>
                /\ d.pc = "target"
                /\ d.token = c.cached
                /\ d.nProbe = 1
                /\ d.nLogin = 0
                /\ tokenCache' = tokenCache]_vars

\* C7 witness: the second invocation sends the token the first one cached,
\* after a probe answered 200 and without a login.
ProbeValidWitness ==
    \E p \in Procs :
        /\ started = 2
        /\ calls[p].pc = "target"
        /\ calls[p].probeStatus = 200
        /\ calls[p].nLogin = 0
        /\ calls[p].token # 0
        /\ getCachedToken(tokenCache, calls[p].cred[1].id) = calls[p].token

\* C10: callApi and callRawApi never throw: an invocation is idle, waiting
\* for a response, or done with a structured result, and a failure carries
\* an error message.
NeverThrows ==
    \A p \in Procs :
        /\ calls[p].pc \in {"idle", "login", "probe", "target", "done"}
        /\ calls[p].pc = "done" =>
              /\ calls[p].result # <<>>
              /\ calls[p].result[1].success \in BOOLEAN
              /\ ~calls[p].result[1].success => calls[p].result[1].error # <<>>

\* C10 witness: an error thrown by the login or by the target request came
\* back as a structured failure.
NeverThrowsWitness ==
    \E p \in Procs :
        /\ calls[p].pc = "done"
        /\ ~calls[p].result[1].success
        /\ calls[p].result[1].error[1]
               \in {"fetch failed", "Network error: fetch failed", "Login failed: 500"}

-----------------------------------------------------------------------------
(* Properties of credential admission (SpecCred).                          *)

\* an addCredential that has built a bearer credential with a loginUrl
AddsDynamic(r, q) ==
    /\ r.pc = "idle"
    /\ q.op = "add"
    /\ q.temp # <<>>
    /\ q.temp[1].type = "bearer"
    /\ Truthy(q.temp[1].config.loginUrl)

\* C8: addCredential of a bearer credential with loginUrl and without
\* skipValidityCheck sends the test login before anything is persisted; when
\* that login fails the result is a failure saying "verification failed"
\* and the store is as it was; with skipValidityCheck no login is sent and
\* the credential is persisted as built.
AddVerifiesBeforePersisting ==
    [][\A a \in AdmProcs :
          LET r == adm[a]
              q == adm'[a]
          IN  /\ (AddsDynamic(r, q) /\ ~q.skip) =>
                    /\ q.pc = "testing"
                    /\ q.nLogin = 1
                    /\ credentials' = credentials
              /\ (r.pc = "testing" /\ r.op = "add" /\ q.loginOk = "failed") =>
                    /\ q.pc = "done"
                    /\ q.result = <<[success |-> FALSE,
                                     error |-> "Credential verification failed"]>>
                    /\ credentials' = credentials
              /\ (AddsDynamic(r, q) /\ q.skip) =>
                    /\ q.pc = "done"
                    /\ q.nLogin = 0
                    /\ q.result[1].success
                    /\ credentials' = Append(credentials, q.temp[1])]_vars

\* C8 witness: an addCredential was rejected because its test login failed,
\* and the credential is not in the store.
AddVerifiesWitness ==
    \E a \in AdmProcs :
        /\ adm[a].pc = "done"
        /\ adm[a].op = "add"
        /\ adm[a].loginOk = "failed"
        /\ ~adm[a].result[1].success
        /\ getCredential(adm[a].id) = <<>>

\* C9: updateCredential whose merged config has a loginUrl, without
\* skipValidityCheck, sends the test login for the merged config before
\* anything is written; when that login fails the update is rejected and
\* the step leaves the store (config, name, updatedAt) as it was; and every
\* add or update without skipValidityCheck that wrote a credential with a
\* loginUrl did so after a successful login with exactly the stored config.
UpdateVerifiesMergedConfig ==
    [][\A a \in AdmProcs :
          LET r == adm[a]
              q == adm'[a]
              stored == credentials'[FindIndex(credentials', q.id)]
          IN  /\ (/\ r.pc = "idle"
                  /\ q.op = "update"
                  /\ q.updates # <<>>
                  /\ Truthy(q.updates[1].config.loginUrl)
                  /\ ~q.skip) =>
                    /\ q.pc = "testing"
                    /\ q.nLogin = 1
                    /\ q.temp[1].config = q.updates[1].config
                    /\ credentials' = credentials
              /\ (r.pc = "testing" /\ r.op = "update" /\ q.loginOk = "failed") =>
                    /\ q.pc = "done"
                    /\ q.result = <<[success |-> FALSE,
                                     error |-> "Credential verification failed"]>>
                    /\ credentials' = credentials
              /\ (/\ r.pc # "done"
                  /\ q.pc = "done"
                  /\ q.op \in {"add", "update"}
                  /\ ~q.skip
                  /\ q.result[1].success
                  /\ Truthy(stored.config.loginUrl)) =>
                    /\ r.pc = "testing"
                    /\ q.loginOk = "ok"
                    /\ stored.config = r.temp[1].config]_vars

\* C9 witness: an updateCredential that would have changed the stored
\* config was rejected because its test login failed.
UpdateVerifiesWitness ==
    \E a \in AdmProcs :
        /\ adm[a].pc = "done"
        /\ adm[a].op = "update"
        /\ adm[a].loginOk = "failed"
        /\ ~adm[a].result[1].success
        /\ getCredential(adm[a].id) # <<>>
        /\ getCredential(adm[a].id)[1].config # adm[a].updates[1].config

-----------------------------------------------------------------------------
(* Further properties of the call layer (Spec).                            *)

\* C11: a login answered with a non-2xx status, or with a 2xx body that has
\* no string at tokenPath, ends the invocation with an error (naming the
\* status in the first case): no further login, probe or target request is
\* sent, also when the login belongs to the retry cycle, and the step
\* writes nothing to the cache, which had no entry for the credential when
\* the login request was sent.
LoginFailureFatal ==
    [][\A p \in Procs :
          LET c == calls[p]
              d == calls'[p]
          IN  /\ (c.pc = "login" /\ d # c /\ d.lastLogin \in {"status", "notoken"}) =>
                    /\ d.pc = "done"
                    /\ d.result =
                         <<[success |-> FALSE, status |-> 0,
                            error |-> IF d.lastLogin = "status"
                                      THEN <<"Login failed: 500">>
                                      ELSE <<"Failed to extract token from login response">>]>>
                    /\ d.nLogin = c.nLogin
                    /\ d.nProbe = c.nProbe
                    /\ d.nTarget = c.nTarget
                    /\ tokenCache' = tokenCache
              /\ (c.pc # "login" /\ d.pc = "login") =>
                    d.cred[1].id \notin DOMAIN tokenCache']_vars

\* C11 witness: the login of a retry cycle was answered with a non-2xx
\* status; the invocation failed although a first response had arrived,
\* and the cache has no entry.
LoginFailureWitness ==
    \E p \in Procs :
        /\ calls[p].pc = "done"
        /\ calls[p].attempt = 2
        /\ calls[p].firstStatus = 401
        /\ calls[p].lastLogin = "status"
        /\ ~calls[p].result[1].success
        /\ calls[p].cred[1].id \notin DOMAIN tokenCache

\* C14: a first target response with a non-2xx status that is not one of
\* the credential's invalidStatusCodes is the result of the call: success
\* with that status, after exactly one target request, and the response
\* triggers no login or probe and leaves the token cache as it was.
UpstreamStatusReturned ==
    [][\A p \in Procs :
          LET c == calls[p]
              d == calls'[p]
          IN  (/\ c.pc = "target"
               /\ c.attempt = 1
               /\ d # c
               /\ d.firstStatus \notin {0, 200}
               /\ \/ d.cred = <<>>
                  \/ d.cred[1].config.invalidStatusCodes = <<>>
                  \/ d.firstStatus \notin d.cred[1].config.invalidStatusCodes[1]) =>
                 /\ d.pc = "done"
                 /\ d.result = <<[success |-> TRUE, status |-> d.firstStatus,
                                  error |-> <<>>]>>
                 /\ d.nTarget = 1
                 /\ d.nLogin = c.nLogin
                 /\ d.nProbe = c.nProbe
                 /\ tokenCache' = tokenCache]_vars

\* C14 witness: a dynamic credential with invalidStatusCodes [401] whose
\* cached token went out once, the target answered 403, and the call
\* returned that 403 with the cache entry still in place.
UpstreamStatusWitness ==
    \E p \in Procs :
        /\ calls[p].pc = "done"
        /\ calls[p].cred # <<>>
        /\ calls[p].cred[1].type = "autoToken"
        /\ calls[p].cred[1].config.invalidStatusCodes = <<{401}>>
        /\ calls[p].firstStatus = 403
        /\ calls[p].nTarget = 1
        /\ calls[p].nLogin = 0
        /\ calls[p].result[1].success
        /\ calls[p].result[1].status = 403
        /\ getCachedToken(tokenCache, calls[p].cred[1].id) = calls[p].token

\* C15: when the fetch of a target request rejects, on the callApi and on
\* the callRawApi path, the invocation fails with a message that starts
\* with "Network error: ", the request is not sent again, no login or probe
\* follows, and the token cache is left as it was.
NetworkErrorPrefixed ==
    [][\A p \in Procs :
          LET c == calls[p]
              d == calls'[p]
          IN  (/\ c.pc = "target"
               /\ d.pc = "done"
               /\ ~d.result[1].success) =>
                 /\ d.result = <<[success |-> FALSE, status |-> 0,
                                  error |-> <<"Network error: fetch failed">>]>>
                 /\ d.nTarget = c.nTarget
                 /\ d.nLogin = c.nLogin
                 /\ d.nProbe = c.nProbe
                 /\ tokenCache' = tokenCache]_vars

\* C16: the retry of a call is sent with a header map made of the
\* defaults, the caller's original headers over them, and the auth header
\* of the token that the login after the eviction issued; that token is
\* not the one the first attempt carried.
RetryHeaders ==
    [][\A p \in Procs :
          LET c == calls[p]
              d == calls'[p]
          IN  (c.nTarget = 1 /\ d.nTarget = 2) =>
                 /\ c.pc = "login"
                 /\ c.attempt = 2
                 /\ d.token = FreshToken
                 /\ d.token # c.firstToken
                 /\ d.sent = <<SetHeader(Overlay(DefaultHeaders, CallerHeaders(p)),
                                         "Authorization", <<"Bearer ", d.token>>)>>]_vars

\* C16 witness: a retry in flight whose caller had overridden the Accept
\* default; the retry carries that override and a token that differs from
\* the cached one the first attempt had sent.
RetryHeadersWitness ==
    /\ calls["p2"].pc = "target"
    /\ calls["p2"].nTarget = 2
    /\ calls["p2"].fromCache
    /\ calls["p2"].firstToken # 0
    /\ calls["p2"].sent[1]["Accept"] = <<"text/plain">>
    /\ calls["p2"].sent[1]["Authorization"] = <<"Bearer ", calls["p2"].token>>
    /\ calls["p2"].token # calls["p2"].firstToken

-----------------------------------------------------------------------------
(* Static credentials (SpecStatic) and customHeaders (SpecHeaders).        *)

\* C19: a call with a static credential of any type, or with none, sends
\* exactly one target request and returns whatever status comes back,
\* 401 and 403 included; it sends no login and no probe, takes no token
\* from the cache and leaves the cache as it was.
StaticSingleRequest ==
    [][\A p \in Procs :
          LET c == calls[p]
              d == calls'[p]
          IN  /\ tokenCache' = tokenCache
              /\ d.nLogin = 0
              /\ d.nProbe = 0
              /\ d.token = 0 /\ d.cached = 0 /\ ~d.fromCache
              /\ d.nTarget <= 1
              /\ (c.pc = "target" /\ d # c) =>
                    /\ d.pc = "done"
                    /\ d.nTarget = 1
                    /\ d.lastStatus # 0 =>
                          d.result = <<[success |-> TRUE, status |-> d.lastStatus,
                                        error |-> <<>>]>>
              /\ (c.pc = "idle" /\ d.pc = "target") =>
                    d.sent = <<IF d.cred = <<>>
                               THEN Overlay(DefaultHeaders, CallerHeaders(p))
                               ELSE applyStaticCredential(
                                        Overlay(DefaultHeaders, CallerHeaders(p)),
                                        d.cred[1])>>]_vars

\* C19 witness: a static bearer credential that even lists 401 among its
\* invalidStatusCodes got a 401 from the target; the call returned it
\* after one request, and the cached token of the dynamic credential is
\* still in place.
StaticSingleRequestWitness ==
    \E p \in Procs :
        /\ calls[p].pc = "done"
        /\ calls[p].cred # <<>>
        /\ calls[p].cred[1].type = "bearer"
        /\ calls[p].cred[1].config.invalidStatusCodes = <<{401}>>
        /\ calls[p].lastStatus = 401
        /\ calls[p].result[1].success
        /\ calls[p].nTarget = 1
        /\ getCachedToken(tokenCache, "c1") = 1

-----------------------------------------------------------------------------
(* Incomplete static credentials (SpecIncomplete).                         *)

\* the fields the credential's type needs are not all there
MissingRequired(credential) ==
    LET config == credential.config
    IN  \/ credential.type = "apiKey"
           /\ (~Truthy(config.apiKey) \/ ~Truthy(config.apiKeyHeader))
        \/ credential.type = "bearer" /\ ~Truthy(config.token)
        \/ credential.type = "basic"
           /\ (~Truthy(config.username) \/ ~Truthy(config.password))
        \/ credential.type = "oauth2" /\ ~Truthy(config.accessToken)
        \/ credential.type = "custom" /\ config.headers = <<>>
        \/ credential.type = "customHeaders" /\ config.customHeaders = <<>>

\* C21: applying a static credential that lacks a field its type needs
\* changes nothing: the request goes out with the defaults and the
\* caller's headers only, no error ends the call, and no login or probe
\* is sent.
IncompleteIsNoOp ==
    [][\A p \in Procs :
          LET c == calls[p]
              d == calls'[p]
          IN  (/\ c.pc = "idle"
               /\ d.cred # <<>>
               /\ MissingRequired(d.cred[1])) =>
                 /\ d.pc = "target"
                 /\ d.sent = <<Overlay(DefaultHeaders, CallerHeaders(p))>>
                 /\ d.result = <<>>
                 /\ d.nTarget = 1
                 /\ d.nLogin = 0
                 /\ d.nProbe = 0
                 /\ tokenCache' = tokenCache]_vars

\* C21 witness: a basic credential without a username was applied; the
\* request in flight has no Authorization header.
IncompleteIsNoOpWitness ==
    \E p \in Procs :
        /\ calls[p].pc = "target"
        /\ calls[p].cred # <<>>
        /\ calls[p].cred[1].type = "basic"
        /\ calls[p].cred[1].config.username = Absent
        /\ "Authorization" \notin DOMAIN calls[p].sent[1]
        /\ DOMAIN calls[p].sent[1] = {"Content-Type", "Accept", "X-Trace"}

-----------------------------------------------------------------------------
(* The dot-path lookup (SpecPath).                                         *)

\* the lookup as specified: at every segment the current value must be a
\* plain object that has the segment as an own key
RECURSIVE DotPath(_, _)
DotPath(value, parts) ==
    IF parts = <<>> THEN value
    ELSE IF value.t # "object" THEN Undefined
    ELSE IF Head(parts) \notin DOMAIN value.own THEN Undefined
    ELSE DotPath(value.own[Head(parts)], Tail(parts))

\* C22: in both copies the lookup yields not-found as soon as the current
\* value is null or undefined, is not a plain object (arrays excluded) or
\* lacks the segment as an own key, and otherwise the value at the path;
\* the value is taken as a token only if it is a string.
DotPathEverywhere ==
    lookup # <<>> =>
        /\ lookup[1].client = DotPath(jsonValue, jsonPath)
        /\ lookup[1].tool = DotPath(jsonValue, jsonPath)
        /\ lookup[1].clientToken => DotPath(jsonValue, jsonPath).t = "string"
        /\ lookup[1].toolToken => DotPath(jsonValue, jsonPath).t = "string"


\* the base URLs of the registered API docs, as a set
WhitelistedBases(list) == {list[i].baseUrl : i \in 1..Len(list)}

\* C23: the whitelist changes only by a successful addApiDoc, which adds the
\* doc's baseUrl, and a successful removeApiDoc, which revokes it: any other
\* step leaves the set of whitelisted base URLs as it was, and a raw call
\* is rejected at admission exactly when no registered doc's baseUrl admits it
WhitelistFollowsDocs ==
    [][/\ \A a \in AdmProcs :
             (adm[a].pc = "idle" /\ adm'[a].op = "addDoc" /\ adm'[a].pc = "done"
                  /\ adm'[a].result[1].success)
                 => /\ Len(apiDocs') = Len(apiDocs) + 1
                    /\ WhitelistedBases(apiDocs') =
                           WhitelistedBases(apiDocs) \cup {apiDocs'[Len(apiDocs')].baseUrl}
       /\ \A a \in AdmProcs :
             (adm[a].pc = "idle" /\ adm'[a].op = "removeDoc" /\ adm'[a].pc = "done"
                  /\ adm'[a].result[1].success)
                 => WhitelistedBases(apiDocs') =
                        {apiDocs[i].baseUrl :
                             i \in {j \in 1..Len(apiDocs) : apiDocs[j].id # adm'[a].id}}
       /\ (\A a \in AdmProcs :
               ~(adm[a].pc = "idle" /\ adm'[a].op \in {"addDoc", "removeDoc"}))
              => WhitelistedBases(apiDocs') = WhitelistedBases(apiDocs)
       /\ \A p \in Procs :
             (calls[p].pc = "idle" /\ calls'[p].pc # "idle" /\ calls'[p].kind = "raw")
                 => (calls'[p].pc = "done"
                        <=> \A base \in WhitelistedBases(apiDocs) :
                                ~validateUrlAgainstWhitelist(calls'[p].url, <<base>>).valid)
      ]_vars

\* C24: every request a call has in flight, be it the target request, the
\* login or the validity probe, goes to a URL that the whitelist of the
\* registered docs admits
OnlyWhitelistedCalled ==
    \A p \in Procs :
        calls[p].pc \in {"login", "probe", "target"} =>
            validateUrlAgainstWhitelist(RequestUrl(calls[p]),
                                        getWhitelistedBaseUrls).valid

\* C25: the URL callApi requests has the scheme and host of the doc's
\* baseUrl and keeps the baseUrl's path as a prefix, so that it passes
\* validateUrlAgainstWhitelist against the baseUrl of the doc it was built from
BuiltUrlWhitelisted ==
    \A p \in Procs :
        (calls[p].kind = "api" /\ calls[p].pc = "target") =>
            \E i \in 1..Len(apiDocs) :
                /\ calls[p].url \in
                       {buildUrl(apiDocs[i].baseUrl, path, TRUE) :
                            path \in apiDocs[i].endpoints}
                /\ validateUrlAgainstWhitelist(calls[p].url,
                                               <<apiDocs[i].baseUrl>>).valid

\* the request lacks a field its type requires
LacksRequired(params) ==
    \/ params.type = "apiKey" /\ ~Truthy(params.apiKey)
    \/ params.type = "bearer" /\ ~Truthy(params.token) /\ ~Truthy(params.loginUrl)
    \/ params.type = "basic" /\ (~Truthy(params.username) \/ ~Truthy(params.password))
    \/ params.type = "custom" /\ params.headers = <<>>

\* C26: addCredential rejects a request that lacks its type's required
\* fields, or a bearer request with loginUrl and no loginBody whose method
\* is not GET, without storing anything and without a login request; the
\* bearer request with loginUrl, no loginBody and method GET is accepted
RequiredFieldsChecked ==
    [][\A params \in RequiredFieldAddParams :
           StartAddCredential("a1", params) =>
                /\ (\/ LacksRequired(params)
                    \/ /\ params.type = "bearer" /\ Truthy(params.loginUrl)
                       /\ ~Truthy(params.loginBody) /\ params.loginMethod # "GET")
                   => /\ adm'["a1"].pc = "done"
                      /\ ~adm'["a1"].result[1].success
                      /\ adm'["a1"].nLogin = adm["a1"].nLogin
                      /\ credentials' = credentials
                /\ (/\ params.type = "bearer" /\ Truthy(params.loginUrl)
                     /\ ~Truthy(params.loginBody) /\ params.loginMethod = "GET"
                     /\ getCredential(params.id) = <<>>)
                       => ~(adm'["a1"].pc = "done" /\ ~adm'["a1"].result[1].success)
      ]_vars

\* C27: every stored credential whose config has a loginUrl also has a
\* loginBody, unless its loginMethod is GET
LoginUrlHasBody ==
    \A i \in 1..Len(credentials) :
        LET config == credentials[i].config
        IN  Truthy(config.loginUrl) =>
                Truthy(config.loginBody) \/ config.loginMethod = "GET"

\* C28: every stored credential of type customHeaders lists between one
\* and five headers
CustomHeadersCount ==
    \A i \in 1..Len(credentials) :
        credentials[i].type = "customHeaders" =>
            /\ credentials[i].config.customHeaders # <<>>
            /\ Len(credentials[i].config.customHeaders[1]) \in 1..MaxCustomHeaders

\* C28 witness: the stored customHeaders credential still lists its one
\* header after an update that offered an empty list was turned down
CustomHeadersCountWitness ==
    /\ getCredential("c1") # <<>>
    /\ getCredential("c1")[1].type = "customHeaders"
    /\ Len(getCredential("c1")[1].config.customHeaders[1]) = 1
    /\ adm["a1"].pc = "done"
    /\ adm["a1"].op = "update"
    /\ adm["a1"].offered = 0
    /\ ~adm["a1"].result[1].success

\* C29: the ids of the stored credentials are pairwise distinct after any
\* interleaving of add, update and remove, and an update leaves the id of
\* every stored credential as it was
CredentialIdsDistinct ==
    [][/\ \A i, j \in 1..Len(credentials') :
             i # j => credentials'[i].id # credentials'[j].id
       /\ \A a \in AdmProcs :
             (adm[a].pc = "idle" /\ adm'[a].op = "update") =>
                /\ Len(credentials') = Len(credentials)
                /\ \A i \in 1..Len(credentials) :
                       credentials'[i].id = credentials[i].id]_vars

\* C30: the retry gate classifies the target's status with the set the
\* validity probe uses, the credential's invalidStatusCodes or 401 and 403
\* when it has none: the first answer with such a status to a call with a
\* dynamic credential leads to the re-authentication and the retry, and a
\* probe answer with such a status to a new login
SameInvalidCodes ==
    [][\A p \in Procs :
          LET c == calls[p]
              d == calls'[p]
          IN  /\ (/\ c.pc = "target" /\ c.attempt = 1 /\ d # c
                  /\ c.cred # <<>>
                  /\ c.cred[1].type = "autoToken"
                  /\ d.firstStatus \in ProbeInvalidCodes(c.cred[1].config)) =>
                    /\ d.pc = "login"
                    /\ d.attempt = 2
              /\ (/\ c.pc = "probe" /\ d # c
                  /\ d.probeStatus \in ProbeInvalidCodes(c.cred[1].config)) =>
                    d.pc = "login"]_vars

\* the well-formed entry admits the well-formed target: same scheme and
\* host, and the target's path starts with the entry's path
EntryMatches(url, base) ==
    /\ UrlParses(url)
    /\ UrlParses(base)
    /\ url.scheme = base.scheme
    /\ url.host = base.host
    /\ StartsWith(IF url.path = <<>> THEN <<"/">> ELSE url.path,
                  IF base.path = <<>> THEN <<"/">> ELSE base.path)

\* C31: the result names the first entry of the whitelist, in input order,
\* that matches the target; a malformed entry is passed over, so the result
\* is valid exactly when some entry matches; a malformed target gives
\* {valid: false}
FirstMatchWins ==
    wlResult # <<>> =>
        LET hits == {i \in 1..Len(wlList) : EntryMatches(wlUrl, wlList[i])}
        IN  /\ wlResult[1].valid <=> hits # {}
            /\ wlResult[1].valid =>
                   \E i \in hits :
                       /\ \A j \in hits : i <= j
                       /\ wlResult[1].matchedBaseUrl = <<wlList[i]>>
            /\ ~UrlParses(wlUrl) => wlResult[1] = NoMatch

\* C31 witness: the entry behind a malformed one has matched
FirstMatchWinsWitness ==
    /\ wlResult # <<>>
    /\ Len(wlList) = 2
    /\ ~UrlParses(wlList[1])
    /\ wlResult[1].valid
    /\ wlResult[1].matchedBaseUrl = <<wlList[2]>>

\* C32: when every request is answered in the end, every invocation that
\* was started returns a result, after at most two target requests and,
\* for each of its at most two applications of the credential, at most one
\* validity probe and one login
CallsTerminate ==
    /\ [](\A p \in Procs :
             /\ calls[p].attempt <= 2
             /\ calls[p].nTarget <= calls[p].attempt
             /\ calls[p].nProbe <= calls[p].attempt
             /\ calls[p].nLogin <= calls[p].attempt)
    /\ \A p \in Procs :
           (calls[p].pc \in {"login", "probe", "target"}) ~> (calls[p].pc = "done")

\* C32 witness: an invocation has returned after two target requests, a
\* validity probe and two logins
CallsTerminateWitness ==
    \E p \in Procs :
        /\ calls[p].pc = "done"
        /\ calls[p].nTarget = 2
        /\ calls[p].nProbe = 1
        /\ calls[p].nLogin = 2

\* C33: Storage.isUrlWhitelisted and validateUrlAgainstWhitelist give the
\* same answer on every target URL and every list of registered base URLs,
\* and neither admits a URL whose scheme and host are those of no entry
PredicatesAgree ==
    wlResult # <<>> =>
        /\ wlResult[1].whitelisted = wlResult[1].valid
        /\ (\A i \in 1..Len(wlList) :
                wlUrl.scheme # wlList[i].scheme \/ wlUrl.host # wlList[i].host)
               => ~wlResult[1].whitelisted /\ ~wlResult[1].valid

\* process a takes a step of the operation op
StepOf(a, op) == adm[a].op = op /\ adm'[a] # adm[a]

\* C34: checkAndRefreshApiDoc never fails its caller; a step of it changes
\* the store only after the remote hash was fetched, differs from the
\* lastHash that was read and the spec was fetched again, and then the
\* stored lastHash is the fetched hash; a check that reads a lastHash and
\* fetches the same hash ends without a spec fetch and without a write.
SmartCacheCheck ==
    /\ [](\A a \in AdmProcs :
             adm[a].op = "checkDoc" /\ adm[a].pc = "done"
                 => adm[a].result[1].success)
    /\ [][\A a \in AdmProcs :
             StepOf(a, "checkDoc") =>
                 /\ apiDocs' # apiDocs =>
                        /\ adm[a].pc = "refetching"
                        /\ adm[a].params # <<>>
                        /\ Field(adm[a].temp[1], "lastHash") # adm[a].params[1]
                        /\ Len(apiDocs') = Len(apiDocs)
                        /\ Field(apiDocs'[FindIndex(apiDocs', adm[a].id)], "lastHash")
                               = adm[a].params[1]
                 /\ /\ adm[a].pc = "hashing"
                    /\ adm'[a].params # <<>>
                    /\ Field(adm[a].temp[1], "lastHash") = adm'[a].params[1]
                    => adm'[a].pc = "done" /\ apiDocs' = apiDocs]_vars

\* a check ended on a cache hit: it read the lastHash an earlier check had
\* stored and fetched the same hash
SmartCacheCheckWitness ==
    \E a \in AdmProcs :
        /\ adm[a].op = "checkDoc"
        /\ adm[a].pc = "done"
        /\ adm[a].params = <<"h1">>
        /\ Field(adm[a].temp[1], "lastHash") = "h1"
        /\ getApiDoc("d1") # <<>>
        /\ Field(getApiDoc("d1")[1], "lastHash") = "h1"

\* C35: a step of refreshApiDoc or checkAndRefreshApiDoc that writes the
\* store leaves id, baseUrl, addedAt and apiHashUrl of the doc as they were,
\* and leaves the set of whitelisted bases as it was.
RefreshKeepsSettings ==
    [][\A a \in AdmProcs :
          (StepOf(a, "refreshDoc") \/ StepOf(a, "checkDoc")) /\ apiDocs' # apiDocs =>
              /\ Len(apiDocs') = Len(apiDocs)
              /\ \A f \in {"id", "baseUrl", "addedAt", "apiHashUrl"} :
                     Field(apiDocs'[FindIndex(apiDocs, adm[a].id)], f)
                         = Field(apiDocs[FindIndex(apiDocs, adm[a].id)], f)
              /\ WhitelistedBases(apiDocs') = WhitelistedBases(apiDocs)]_vars

\* the frame of C35 for a refresh whose doc is still the one it read
RefreshKeepsSettingsOfReadDoc ==
    [][\A a \in AdmProcs :
          /\ StepOf(a, "refreshDoc") \/ StepOf(a, "checkDoc")
          /\ apiDocs' # apiDocs
          /\ \A f \in {"baseUrl", "addedAt", "apiHashUrl"} :
                 Field(apiDocs[FindIndex(apiDocs, adm[a].id)], f)
                     = Field(adm[a].temp[1], f)
          => /\ Len(apiDocs') = Len(apiDocs)
             /\ \A f \in {"id", "baseUrl", "addedAt", "apiHashUrl"} :
                    Field(apiDocs'[FindIndex(apiDocs, adm[a].id)], f)
                        = Field(apiDocs[FindIndex(apiDocs, adm[a].id)], f)
             /\ WhitelistedBases(apiDocs') = WhitelistedBases(apiDocs)]_vars

\* C36: when the doc of a suspended refreshApiDoc or checkAndRefreshApiDoc
\* has been removed, the steps of the refresh leave the doc absent and the
\* set of whitelisted bases as it was.
RemovedStaysRemoved ==
    [][\A a \in AdmProcs :
          /\ StepOf(a, "refreshDoc") \/ StepOf(a, "checkDoc")
          /\ adm[a].pc \in {"fetching", "hashing", "refetching"}
          /\ getApiDoc(adm[a].id) = <<>>
          => /\ FindIndex(apiDocs', adm[a].id) = 0
             /\ WhitelistedBases(apiDocs') = WhitelistedBases(apiDocs)]_vars

\* a refresh whose spec fetch succeeded ended on the throw of updateApiDoc,
\* and the doc it read and its base are not in the store
RemovedStaysRemovedWitness ==
    \E a \in AdmProcs :
        /\ adm[a].op = "refreshDoc"
        /\ adm[a].pc = "done"
        /\ adm[a].result = <<[success |-> FALSE, error |-> "API doc with id not found"]>>
        /\ getApiDoc("d1") = <<>>
        /\ adm[a].temp[1].baseUrl \notin WhitelistedBases(apiDocs)

\* C37: a request never carries a token of the cache that was obtained
\* before the credential of the call was last written: the token a call
\* takes from the cache was cached after the latest update (or the latest
\* add) of its credential.
NoSupersededToken ==
    [][\A p \in Procs :
          /\ calls'[p] # calls[p]
          /\ calls'[p].pc = "target"
          /\ calls'[p].token # 0
          /\ calls'[p].cred[1].id \in DOMAIN tokenCache
          /\ tokenCache[calls'[p].cred[1].id].token = calls'[p].token
          => tokenCache[calls'[p].cred[1].id].obtainedAt
                 > calls'[p].cred[1].updatedAt]_vars

\* the credential id an invocation works for
CredIdOf(c) == IF c.cred = <<>> THEN Absent ELSE c.cred[1].id

\* C38: the cache entries are isolated per credential id: a step of a call
\* for one credential leaves the entry of every other credential as it
\* was, and the token a request carries is never the cached token of
\* another credential.
TokenCachePerCredential ==
    /\ [](\A p \in Procs :
             calls[p].pc = "target" /\ calls[p].token # 0 =>
                 \A k \in DOMAIN tokenCache \ {CredIdOf(calls[p])} :
                     tokenCache[k].token # calls[p].token)
    /\ [][\A p \in Procs :
             calls'[p] # calls[p] =>
                 \A k \in (DOMAIN tokenCache \cup DOMAIN tokenCache')
                          \ {CredIdOf(calls[p]), CredIdOf(calls'[p])} :
                     /\ k \in DOMAIN tokenCache
                     /\ k \in DOMAIN tokenCache'
                     /\ tokenCache'[k] = tokenCache[k]]_vars

\* a call for c1 evicted its token at the retry gate and logged in again
\* while the cache held, and still holds, the token of c3
TokenCachePerCredentialWitness ==
    \E p \in Procs :
        /\ CredIdOf(calls[p]) = "c1"
        /\ calls[p].attempt = 2
        /\ calls[p].pc = "target"
        /\ calls[p].nLogin = 2
        /\ DOMAIN tokenCache = {"c1", "c3"}
        /\ tokenCache["c1"].token = calls[p].token
        /\ tokenCache["c3"].token # calls[p].token

\* C39: the retry gate of a call evicts only the token its failing request
\* carried: when the cache holds another token at that moment (one that a
\* concurrent call cached after this call sent its request), the entry is
\* still there after the gate.
GateEvictsOnlyCarriedToken ==
    [][\A p \in Procs :
          /\ calls[p].pc = "target"
          /\ calls[p].attempt = 1
          /\ calls'[p].attempt = 2
          /\ CredIdOf(calls[p]) \in DOMAIN tokenCache
          /\ tokenCache[CredIdOf(calls[p])].token # calls[p].token
          => /\ CredIdOf(calls[p]) \in DOMAIN tokenCache'
             /\ tokenCache'[CredIdOf(calls[p])] = tokenCache[CredIdOf(calls[p])]]_vars

\* C40: resolveSchema terminates on every input, circular references
\* included: no call runs at a depth above MAX_SCHEMA_DEPTH, a call at that
\* depth returns its schema marked _maxDepthReached, a call below it whose
\* $ref is already on the path returns its schema marked _circular and no
\* such reference is followed, and every call that was started returns.
ResolveSchemaTerminates ==
    /\ [](\A i \in 1..Len(stack) :
             /\ stack[i].depth <= MAX_SCHEMA_DEPTH
             /\ stack[i].depth = i - 1
             /\ stack[i].pc = "ref" =>
                    schemas.nodes[stack[i].schema].ref[1] \notin stack[i].visitedRefs)
    /\ [][Len(stack') < Len(stack) /\ stack[Len(stack)].pc = "call" =>
             LET f == stack[Len(stack)]
             IN  /\ f.depth = MAX_SCHEMA_DEPTH =>
                        returned' = <<[schema |-> f.schema, mark |-> "_maxDepthReached",
                                       depth |-> f.depth]>>
                 /\ /\ f.depth < MAX_SCHEMA_DEPTH
                    /\ schemas.nodes[f.schema].ref # <<>>
                    /\ schemas.nodes[f.schema].ref[1] \in f.visitedRefs
                    => returned' = <<[schema |-> f.schema, mark |-> "_circular",
                                      depth |-> f.depth]>>]_vars
    /\ (stack # <<>>) ~> (stack = <<>>)

\* the resolution of a circular pair of schemas has ended, and what it
\* returned is the reference that closes the circle, marked _circular
ResolveSchemaTerminatesWitness ==
    /\ stack = <<>>
    /\ returned # <<>>
    /\ schemas.nodes[returned[1].schema] = Ref("#/components/schemas/", "A")
    /\ returned[1].mark = "_circular"
    /\ returned[1].depth = 2
=============================================================================
